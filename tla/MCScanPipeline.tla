--------------------------- MODULE MCScanPipeline ---------------------------
(* Small instances of ScanPipeline for TLC. *)
EXTENDS ScanPipeline

CONSTANTS t1, quick, full

OneTenant == [s \in Scans |-> t1]
OneProfile == [s \in Scans |-> quick]
OwnProfiles == [s \in Scans |-> IF s = 1 THEN quick ELSE full]
OneLimit == [t \in Tenants |-> 1]
=============================================================================
