CONSTANTS
    Replicas = {r1, r2, r3}
    Ghost = Ghost
    Deadline = 2
    MaxFaults = 2
SPECIFICATION FairSpec
INVARIANTS TypeOK OneWorker
PROPERTIES OrderlyEndFreesLease MaintenanceRecurs
