SPECIFICATION Spec
CONSTANTS
  Session = {s1, s2, s3}
  NoSession = none
  MaxBacklog = 1
PROPERTIES Resynchronises LeftSessionLetsGo Reconnects
