\* A login stamps the registry it read before an account was disabled.
SPECIFICATION Spec
CONSTANTS
  Operator = {ada, bo}
  Role = {"administrator"}
  FirstAdmin = ada
  Cli = {c1}
  Request = {}
  Absent = Absent
  None = None
PROPERTIES
  ALoginEnablesNobody
