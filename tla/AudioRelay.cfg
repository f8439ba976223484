SPECIFICATION Spec
CONSTANTS
  Ports = {p}
  Formats = {mono, stereo}
  Listeners = {l1}
  Poll = Poll
  Save = Save
  None = None
  MaxPlans = 2
INVARIANTS NoDeadSubscriber StreamsAreFed
PROPERTY EventuallyCurrent
