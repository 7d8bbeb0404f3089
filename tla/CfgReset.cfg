\* The reset of the configuration.
CONSTANTS
    Known = {"wifi", "mqtt"}
    Unknown = {"junk"}
    Values = {"a", "b"}
    MaxVars = 2
SPECIFICATION CfgSpec
PROPERTY ResetClears
