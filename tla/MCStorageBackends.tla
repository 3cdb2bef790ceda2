------------------------- MODULE MCStorageBackends -------------------------
EXTENDS StorageBackends

MCLimit == [campaigns |-> 3, entities |-> 1, admins |-> 1, adminSessions |-> 2,
            seats |-> 2, invites |-> 2, accounts |-> 2, sessions |-> 3]
=============================================================================
