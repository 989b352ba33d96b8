CONSTANTS
  pa = pa
  pb = pb
  q1 = q1
  q2 = q2
  a1 = a1
  a2 = a2
  b1 = b1
  Peers = {pa, pb}
  Messages = {a1, a2, b1}
  RequestIds = {q1, q2}
  SenderOf <- Senders
  IdOf <- Ids
  Wants <- Asks
  Flags = {"may_send_requests"}
  Cap = 1
  MaxReplies = 2
  None = None
SPECIFICATION Spec
INVARIANTS TypeOK OneMission CompletedMeansAnswered
