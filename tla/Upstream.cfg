SPECIFICATION Spec
CONSTANTS
  get = get
  post = post
  Calls = {get, post}
  Method <- MethodOf
  Keyed = {}
  MaxResends = 2
PROPERTIES
  WritesOncePerCall
  CallsReturn
CHECK_DEADLOCK FALSE
