CONSTANTS
  ambulance = ambulance
  relay = relay
  parked = parked
  Cars = {ambulance, relay, parked}
  NumHazards = 2
  InRange <- Chain
  Start <- Starts
  Place <- Places
  Pace <- Paces
  Speed <- Speeds
  Road = 4
  Lights = {1}
  Lidar = 1
  Horizon = 4
  Brake = 2
  Gap = 1
  Slack = 1
SPECIFICATION Spec
INVARIANTS TypeOK WarningsTrace EdgesAgree
