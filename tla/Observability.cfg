SPECIFICATION Spec
CONSTANTS
  Fields <- MCFields
  Key = "api_key"
  Values = {"a", "b"}
  Default <- MCDefault
  StartEnvs <- MCStartEnvs
  Refs = {"project", "api_key", "debug"}
  Unset = Unset
  Absent = Absent
  Off = Off
INVARIANT ShownIsApplied
PROPERTIES SavedSettingsSurvive TracingStaysOn
