SPECIFICATION PatientSpec
PROPERTY ForcedChangeEnds
CHECK_DEADLOCK FALSE
