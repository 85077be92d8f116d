SPECIFICATION Spec
CONSTANTS
 Queries = {q1,q2}
 Default = "default"
 Backups = {"b1"}
 Policy <- Pol
 Hosts <- Ho
 MaxRecursion = 1
 TTLStrategies = {"forever","timed"}
 None = None
INVARIANTS TypeOK OneUserPerConn BackupPromoted
PROPERTIES QueryEnds
CHECK_DEADLOCK FALSE
