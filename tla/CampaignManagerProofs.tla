----------------------- MODULE CampaignManagerProofs -----------------------
(***************************************************************************)
(* Theorems about CampaignManager for every number of connections,         *)
(* campaigns and engines, whatever the storage does.                       *)
(***************************************************************************)
EXTENDS CampaignManager, FiniteSetTheorems, TLAPS

\* Sets of connections are finite, so they can be counted.
LEMMA ConnectionsCount ==
  /\ \A c \in Campaigns : IsFiniteSet(Waiters(c)) /\ Cardinality(Waiters(c)) \in Nat
  /\ \A e \in Engines : IsFiniteSet(Holders(e)) /\ Cardinality(Holders(e)) \in Nat
<1>1. \A S \in SUBSET Connections : IsFiniteSet(S) /\ Cardinality(S) \in Nat
  BY FS_Subset, FS_CardinalityType, ManagerAssumption
<1>2. QED
  BY <1>1 DEF Waiters, Holders

\* Release touches the entry of its campaign only, and keeps the types.
LEMMA ReleaseType ==
  ASSUME TypeOK, NEW c \in Campaigns, Release(c)
  PROVE  refCount' \in [Engines -> Nat] /\ timer' \in [Engines -> BOOLEAN]
         /\ strays' \in [Campaigns -> Nat]
<1>1. CASE entries[c] = None
  BY <1>1 DEF TypeOK, Release
<1>2. CASE entries[c] # None
  <2> DEFINE e == entries[c]
             n == IF refCount[e] > 0 THEN refCount[e] - 1 ELSE 0
  <2>1. e \in Engines /\ n \in Nat
    BY <1>2 DEF TypeOK
  <2>2. refCount' \in [Engines -> Nat]
    BY <1>2, <2>1 DEF TypeOK, Release
  <2>3. timer' \in [Engines -> BOOLEAN]
    BY <1>2, <2>1 DEF TypeOK, Release
  <2>4. strays' \in [Campaigns -> Nat]
    BY <1>2, <2>1 DEF TypeOK, Release
  <2>5. QED
    BY <2>2, <2>3, <2>4
<1>3. QED
  BY <1>1, <1>2

----------------------------------------------------------------------------
(* The initial states *)

LEMMA InitIInv == Init => IInv
<1> SUFFICES ASSUME Init PROVE IInv
  OBVIOUS
<1>1. TypeOK
  <2>1. NoConn \in Conn
    BY DEF NoConn, Conn
  <2>2. conn \in [Connections -> Conn]
    BY <2>1 DEF Init
  <2>3. extra \in 0..MaxExtraReleases
    BY ManagerAssumption DEF Init
  <2>4. QED
    BY <2>2, <2>3 DEF Init, TypeOK
<1>2. Registered /\ NoOrphanEngine
  BY DEF Init, Registered, NoOrphanEngine
<1>3. OpensAwaited
  BY DEF Init, OpensAwaited, NoConn
<1>4. HeldEngineIsOpen /\ CountIsExact /\ NoStrays
  BY DEF Init, HeldEngineIsOpen, CountIsExact, NoStrays, NoConn
<1>5. QED
  BY <1>1, <1>2, <1>3, <1>4 DEF IInv

----------------------------------------------------------------------------
(* The parts of the invariant that hold whatever release is called for *)

\* Every action keeps the types.
LEMMA TypeStep ==
  ASSUME TypeOK, OpensAwaited, [Next]_vars
  PROVE  TypeOK'
<1> USE ManagerAssumption
<1>1. ASSUME NEW k \in Connections, NEW c \in Campaigns, Upgrade(k, c)
      PROVE  TypeOK'
  BY <1>1 DEF Upgrade, TypeOK, Conn, NoConn, entryVars
<1>2. ASSUME NEW k \in Connections, Unauthorized(k)
      PROVE  TypeOK'
  BY <1>2 DEF Unauthorized, TypeOK, Conn, NoConn, entryVars
<1>3. ASSUME NEW k \in Connections, AcquireOpen(k)
      PROVE  TypeOK'
  <2>1. conn[k] \in Conn /\ conn[k].campaign \in Campaigns
    BY <1>3 DEF AcquireOpen, TypeOK, Conn, OpensAwaited
  <2>2. entries[conn[k].campaign] \in Engines
    BY <1>3, <2>1 DEF AcquireOpen, TypeOK
  <2>3. [conn[k] EXCEPT !.phase = "attached", !.engine = entries[conn[k].campaign]]
          \in Conn
    BY <2>1, <2>2 DEF Conn
  <2>4. conn' \in [Connections -> Conn]
    BY <1>3, <2>3 DEF AcquireOpen, TypeOK
  <2>5. refCount' \in [Engines -> Nat] /\ timer' \in [Engines -> BOOLEAN]
    BY <1>3, <2>2 DEF AcquireOpen, TypeOK
  <2>6. QED
    BY <1>3, <2>4, <2>5 DEF AcquireOpen, TypeOK
<1>4. ASSUME NEW k \in Connections, AcquireOpening(k)
      PROVE  TypeOK'
  BY <1>4 DEF AcquireOpening, TypeOK, Conn, entryVars
<1>5. ASSUME NEW k \in Connections, AcquireNew(k)
      PROVE  TypeOK'
  <2>1. conn' \in [Connections -> Conn]
    BY <1>5 DEF AcquireNew, TypeOK, Conn
  <2>2. conn[k].campaign \in Campaigns
    BY <1>5 DEF AcquireNew, TypeOK, Conn, OpensAwaited
  <2>3. opening' \in [Campaigns -> Engines \cup {None}]
        /\ status' \in [Engines -> {"closed", "opening", "open"}]
    BY <1>5, <2>2 DEF AcquireNew, TypeOK
  <2>4. QED
    BY <1>5, <2>1, <2>3 DEF AcquireNew, TypeOK
<1>6. ASSUME NEW c \in Campaigns, Opened(c)
      PROVE  TypeOK'
  <2>1. opening[c] \in Engines /\ Cardinality(Waiters(c)) \in Nat
    BY <1>6, ConnectionsCount DEF Opened, TypeOK
  <2>2. \A k \in Connections :
          [conn[k] EXCEPT !.phase = "attached", !.engine = opening[c]] \in Conn
    <3>1. TAKE k \in Connections
    <3>2. conn[k] \in Conn
      BY DEF TypeOK
    <3>3. QED
      BY <2>1, <3>2 DEF Conn
  <2>3. conn' \in [Connections -> Conn]
    BY <1>6, <2>2 DEF Opened, TypeOK
  <2>4. refCount' \in [Engines -> Nat]
    BY <1>6, <2>1 DEF Opened, TypeOK
  <2>5. QED
    BY <1>6, <2>1, <2>3, <2>4 DEF Opened, TypeOK
<1>7. ASSUME NEW c \in Campaigns, OpenFails(c)
      PROVE  TypeOK'
  BY <1>7 DEF OpenFails, TypeOK, Conn, NoConn
<1>8. ASSUME NEW k \in Connections, Vanish(k)
      PROVE  TypeOK'
  BY <1>8, ZenonT(30) DEF Vanish, TypeOK, Conn, entryVars
<1>9. ASSUME NEW k \in Connections, Disconnect(k)
      PROVE  TypeOK'
  <2>1. conn[k].campaign \in Campaigns
    BY <1>9 DEF Disconnect, TypeOK, Conn, OpensAwaited
  <2>2. conn' \in [Connections -> Conn]
    BY <1>9 DEF Disconnect, TypeOK, Conn, NoConn
  <2>3. QED
    BY <1>9, <2>1, <2>2, ReleaseType DEF Disconnect, TypeOK
<1>10. ASSUME NEW c \in Campaigns, ReleaseAgain(c)
       PROVE  TypeOK'
  BY <1>10, ReleaseType DEF ReleaseAgain, TypeOK
<1>11. ASSUME NEW c \in Campaigns, IdleTimeout(c)
       PROVE  TypeOK'
  BY <1>11 DEF IdleTimeout, TypeOK
<1>12. ASSUME NEW c \in Campaigns, StrayTimeout(c)
       PROVE  TypeOK'
  <2>1. strays[c] - 1 \in Nat
    BY <1>12 DEF StrayTimeout, TypeOK
  <2>2. strays' \in [Campaigns -> Nat]
    <3>1. strays' = strays \/ strays' = [strays EXCEPT ![c] = strays[c] - 1]
      BY <1>12 DEF StrayTimeout
    <3>2. QED
      BY <2>1, <3>1 DEF TypeOK
  <2>3. CASE entries[c] = None
    <3>1. UNCHANGED <<entries, status, timer, opening, refCount, conn, stopped, extra>>
      BY <1>12, <2>3 DEF StrayTimeout
    <3>2. QED
      BY <2>2, <3>1 DEF TypeOK
  <2>4. CASE entries[c] # None
    <3>1. /\ entries' = [entries EXCEPT ![c] = None]
          /\ status' = [status EXCEPT ![entries[c]] = "closed"]
          /\ timer' = [timer EXCEPT ![entries[c]] = FALSE]
          /\ UNCHANGED <<opening, refCount, conn, stopped, extra>>
      BY <1>12, <2>4 DEF StrayTimeout
    <3>2. QED
      BY <2>2, <3>1 DEF TypeOK
  <2>5. QED
    BY <2>3, <2>4
<1>13. CASE CloseAll
  BY <1>13 DEF CloseAll, TypeOK
<1>14. CASE UNCHANGED vars
  BY <1>14 DEF vars, entryVars, TypeOK
<1>15. QED
  BY <1>1, <1>2, <1>3, <1>4, <1>5, <1>6, <1>7, <1>8, <1>9, <1>10, <1>11,
     <1>12, <1>13, <1>14 DEF Next, Admit, OpenSettles

\* Most actions leave the maps and the engines alone.
LEMMA MapsUntouched ==
  ASSUME [Next]_vars
  PROVE  \/ UNCHANGED <<entries, opening, status>>
         \/ \E k \in Connections : AcquireNew(k)
         \/ \E c \in Campaigns : Opened(c) \/ OpenFails(c) \/ IdleTimeout(c) \/ StrayTimeout(c)
         \/ CloseAll
<1>1. CASE UNCHANGED vars
  BY <1>1 DEF vars, entryVars
<1>2. ASSUME NEW k \in Connections,
             \/ \E c \in Campaigns : Upgrade(k, c)
             \/ Unauthorized(k) \/ AcquireOpen(k) \/ AcquireOpening(k)
             \/ Vanish(k) \/ Disconnect(k)
      PROVE  UNCHANGED <<entries, opening, status>>
  BY <1>2 DEF Upgrade, Unauthorized, AcquireOpen, AcquireOpening, Vanish,
              Disconnect, entryVars
<1>3. ASSUME NEW c \in Campaigns, ReleaseAgain(c)
      PROVE  UNCHANGED <<entries, opening, status>>
  BY <1>3 DEF ReleaseAgain
<1>4. QED
  BY <1>1, <1>2, <1>3 DEF Next, Admit, OpenSettles

\* What Opened does to the maps and the engines.
LEMMA OpenedRegisters ==
  ASSUME TypeOK, Registered, NEW c \in Campaigns, Opened(c)
  PROVE  /\ opening[c] \in Engines
         /\ \A d \in Campaigns : entries[d] # opening[c]
         /\ entries' = [entries EXCEPT ![c] = opening[c]]
         /\ opening' = [opening EXCEPT ![c] = None]
         /\ status' = [status EXCEPT ![opening[c]] = "open"]
<1>1. opening[c] # None
  BY DEF Opened
<1>2. opening[c] \in Engines /\ \A d \in Campaigns : entries[d] # opening[c]
  BY <1>1 DEF Registered, TypeOK
<1>3. QED
  BY <1>2 DEF Opened

\* The two timeouts take an entry away, and its engine is closed.
LEMMA TimeoutCloses ==
  ASSUME NEW c \in Campaigns, IdleTimeout(c) \/ StrayTimeout(c)
  PROVE  \/ UNCHANGED <<entries, opening, status>>
         \/ /\ entries[c] # None /\ UNCHANGED opening
            /\ entries' = [entries EXCEPT ![c] = None]
            /\ status' = [status EXCEPT ![entries[c]] = "closed"]
BY DEF IdleTimeout, StrayTimeout

\* The two maps always agree with what the engines are.
LEMMA RegisteredStep ==
  ASSUME TypeOK, Registered, OpensAwaited, [Next]_vars
  PROVE  Registered'
<1> USE ManagerAssumption
<1>1. CASE UNCHANGED <<entries, opening, status>>
  BY <1>1 DEF Registered
<1>2. ASSUME NEW k \in Connections, AcquireNew(k)
      PROVE  Registered'
  <2>1. conn[k].campaign \in Campaigns
    BY <1>2 DEF AcquireNew, TypeOK, Conn, OpensAwaited
  <2>2. PICK e \in Engines : /\ status[e] = "closed"
                             /\ opening' = [opening EXCEPT ![conn[k].campaign] = e]
                             /\ status' = [status EXCEPT ![e] = "opening"]
    BY <1>2 DEF AcquireNew
  <2>3. \A c \in Campaigns : entries[c] # e /\ opening[c] # e
    BY <2>2 DEF Registered, TypeOK
  <2>4. QED
    BY <1>2, <2>1, <2>2, <2>3 DEF AcquireNew, Registered, TypeOK
<1>3. ASSUME NEW c \in Campaigns, Opened(c)
      PROVE  Registered'
  BY <1>3, OpenedRegisters DEF Registered, TypeOK
<1>4. ASSUME NEW c \in Campaigns, OpenFails(c)
      PROVE  Registered'
  <2>1. opening[c] \in Engines /\ \A d \in Campaigns : entries[d] # opening[c]
    BY <1>4 DEF OpenFails, Registered, TypeOK
  <2>2. QED
    BY <1>4, <2>1 DEF OpenFails, Registered, TypeOK
<1>5. ASSUME NEW c \in Campaigns, IdleTimeout(c) \/ StrayTimeout(c)
      PROVE  Registered'
  <2>1. CASE UNCHANGED <<entries, opening, status>>
    BY <2>1 DEF Registered
  <2>2. CASE /\ entries[c] # None /\ UNCHANGED opening
             /\ entries' = [entries EXCEPT ![c] = None]
             /\ status' = [status EXCEPT ![entries[c]] = "closed"]
    <3>1. \A d \in Campaigns : opening[d] # entries[c]
      BY <2>2 DEF Registered, TypeOK
    <3>2. QED
      BY <2>2, <3>1 DEF Registered, TypeOK
  <2>3. QED
    BY <1>5, <2>1, <2>2, TimeoutCloses
<1>6. CASE CloseAll
  <2>1. \A c, d \in Campaigns : opening[c] # None => entries[d] # opening[c]
    BY DEF Registered
  <2>2. QED
    BY <1>6, <2>1 DEF CloseAll, Registered, TypeOK
<1>7. QED
  BY <1>1, <1>2, <1>3, <1>4, <1>5, <1>6, MapsUntouched

\* No engine is left without a campaign that knows it.
LEMMA OrphanStep ==
  ASSUME TypeOK, Registered, NoOrphanEngine, OpensAwaited, [Next]_vars
  PROVE  NoOrphanEngine'
<1> USE ManagerAssumption
<1>1. CASE UNCHANGED <<entries, opening, status>>
  BY <1>1 DEF NoOrphanEngine
<1>2. ASSUME NEW k \in Connections, AcquireNew(k)
      PROVE  NoOrphanEngine'
  <2>1. conn[k].campaign \in Campaigns
    BY <1>2 DEF AcquireNew, TypeOK, Conn, OpensAwaited
  <2>2. PICK e \in Engines : /\ status[e] = "closed"
                             /\ opening' = [opening EXCEPT ![conn[k].campaign] = e]
                             /\ status' = [status EXCEPT ![e] = "opening"]
    BY <1>2 DEF AcquireNew
  <2>3. opening[conn[k].campaign] = None /\ entries[conn[k].campaign] = None
        /\ UNCHANGED entries
    BY <1>2 DEF AcquireNew
  <2>4. \A c \in Campaigns : entries[c] # e
    BY <2>2 DEF Registered
  <2>5. QED
    BY <2>1, <2>2, <2>3, <2>4 DEF NoOrphanEngine, TypeOK
<1>3. ASSUME NEW c \in Campaigns, Opened(c)
      PROVE  NoOrphanEngine'
  <2>1. opening[c] \in Engines /\ entries' = [entries EXCEPT ![c] = opening[c]]
        /\ opening' = [opening EXCEPT ![c] = None]
        /\ status' = [status EXCEPT ![opening[c]] = "open"]
    BY <1>3, OpenedRegisters
  <2>2. \A d \in Campaigns : opening[d] = opening[c] => d = c
    BY <2>1 DEF Registered
  <2>3. opening[c] # None /\ entries[c] = None
    BY <1>3 DEF Opened, NoOrphanEngine
  <2>4. QED
    BY <2>1, <2>2, <2>3 DEF NoOrphanEngine, TypeOK
<1>4. ASSUME NEW c \in Campaigns, OpenFails(c)
      PROVE  NoOrphanEngine'
  <2>1. opening[c] \in Engines /\ \A d \in Campaigns : entries[d] # opening[c]
    BY <1>4 DEF OpenFails, Registered, TypeOK
  <2>2. \A d \in Campaigns : opening[d] = opening[c] => d = c
    BY <2>1 DEF Registered
  <2>3. QED
    BY <1>4, <2>1, <2>2 DEF OpenFails, NoOrphanEngine, TypeOK
<1>5. ASSUME NEW c \in Campaigns, IdleTimeout(c) \/ StrayTimeout(c)
      PROVE  NoOrphanEngine'
  <2>1. CASE UNCHANGED <<entries, opening, status>>
    BY <2>1 DEF NoOrphanEngine
  <2>2. CASE /\ entries[c] # None /\ UNCHANGED opening
             /\ entries' = [entries EXCEPT ![c] = None]
             /\ status' = [status EXCEPT ![entries[c]] = "closed"]
    <3>1. entries[c] \in Engines
      BY <2>2 DEF TypeOK
    <3>2. \A d \in Campaigns : entries[d] = entries[c] => d = c
      BY <2>2 DEF Registered
    <3>3. QED
      BY <2>2, <3>1, <3>2 DEF NoOrphanEngine, TypeOK
  <2>3. QED
    BY <1>5, <2>1, <2>2, TimeoutCloses
<1>6. CASE CloseAll
  BY <1>6 DEF CloseAll, NoOrphanEngine, TypeOK
<1>7. QED
  BY <1>1, <1>2, <1>3, <1>4, <1>5, <1>6, MapsUntouched

\* Every open is awaited by a connection that is still there to be served.
LEMMA AwaitedStep ==
  ASSUME TypeOK, Registered, NoOrphanEngine, OpensAwaited, [Next]_vars
  PROVE  OpensAwaited'
<1> USE ManagerAssumption
<1>1. ASSUME NEW k \in Connections, NEW c \in Campaigns, Upgrade(k, c)
      PROVE  OpensAwaited'
  BY <1>1 DEF Upgrade, OpensAwaited, Holders, TypeOK, Conn, NoConn, entryVars
<1>2. ASSUME NEW k \in Connections, Unauthorized(k)
      PROVE  OpensAwaited'
  BY <1>2 DEF Unauthorized, OpensAwaited, Holders, TypeOK, Conn, NoConn, entryVars
<1>3. ASSUME NEW k \in Connections, AcquireOpen(k)
      PROVE  OpensAwaited'
  <2>1. conn[k].campaign \in Campaigns
    BY <1>3 DEF AcquireOpen, TypeOK, Conn, OpensAwaited
  <2>2. entries[conn[k].campaign] # None
        /\ \A c \in Campaigns : opening[c] # None => opening[c] # entries[conn[k].campaign]
    BY <1>3, <2>1 DEF AcquireOpen, Registered
  <2>3. QED
    BY <1>3, <2>1, <2>2 DEF AcquireOpen, OpensAwaited, Holders, TypeOK, Conn
<1>4. ASSUME NEW k \in Connections, AcquireOpening(k)
      PROVE  OpensAwaited'
  BY <1>4 DEF AcquireOpening, OpensAwaited, Holders, TypeOK, Conn, entryVars
<1>5. ASSUME NEW k \in Connections, AcquireNew(k)
      PROVE  OpensAwaited'
  <2> DEFINE m == conn[k].campaign
  <2>1. m \in Campaigns /\ conn[k].phase = "resolving" /\ opening[m] = None
        /\ conn' = [conn EXCEPT ![k].phase = "waiting"]
    BY <1>5 DEF AcquireNew, TypeOK, Conn, OpensAwaited
  <2>2. PICK e \in Engines : Holders(e) = {} /\ opening' = [opening EXCEPT ![m] = e]
    BY <1>5 DEF AcquireNew
  <2>4. conn'[k].phase = "waiting" /\ conn'[k].campaign = m
    BY <2>1 DEF TypeOK, Conn
  <2>5. \A l \in Connections : l # k => conn'[l] = conn[l]
    BY <2>1 DEF TypeOK
  <2>6. opening'[m] = e /\ \A d \in Campaigns : d # m => opening'[d] = opening[d]
    BY <2>1, <2>2 DEF TypeOK
  <2>7. \A d \in Campaigns : opening'[d] # None => opening'[d] \in Engines
    BY <2>1, <2>2 DEF TypeOK
  <2> HIDE DEF m
  <2>8. ASSUME NEW l \in Connections
        PROVE  /\ conn'[l].phase # "closed" => conn'[l].campaign # None
               /\ conn'[l].phase = "waiting" => opening'[conn'[l].campaign] # None
               /\ conn'[l].phase = "attached" => conn'[l].engine # None
    <3>1. conn[l].phase = "waiting" => conn[l].campaign \in Campaigns
      BY DEF OpensAwaited, TypeOK, Conn
    <3>2. QED
      BY <2>1, <2>2, <2>4, <2>5, <2>6, <3>1 DEF OpensAwaited
  <2>9. ASSUME NEW d \in Campaigns, opening'[d] # None
        PROVE  /\ \E l \in Connections : conn'[l].phase = "waiting" /\ conn'[l].campaign = d
               /\ \A l \in Connections :
                    ~(conn'[l].phase = "attached" /\ conn'[l].engine = opening'[d])
    <3>1. CASE d = m
      BY <2>2, <2>4, <2>5, <2>6, <3>1 DEF Holders
    <3>2. CASE d # m
      <4>1. opening'[d] = opening[d] /\ opening[d] \in Engines
        BY <2>6, <2>7, <2>9, <3>2
      <4>2. PICK l \in Connections : conn[l].phase = "waiting" /\ conn[l].campaign = d
        BY <2>9, <4>1 DEF OpensAwaited
      <4>3. conn'[l] = conn[l]
        BY <2>1, <2>5, <4>2
      <4>4. Holders(opening[d]) = {}
        BY <2>9, <4>1 DEF OpensAwaited
      <4>5. QED
        BY <2>4, <2>5, <4>1, <4>2, <4>3, <4>4 DEF Holders
    <3>3. QED
      BY <3>1, <3>2
  <2>10. QED
    BY <2>8, <2>9 DEF OpensAwaited, Holders
<1>6. ASSUME NEW c \in Campaigns, Opened(c)
      PROVE  OpensAwaited'
  <2>1. opening[c] \in Engines /\ opening' = [opening EXCEPT ![c] = None]
    BY <1>6, OpenedRegisters
  <2>2. \A d \in Campaigns : opening[d] = opening[c] => d = c
    BY <2>1 DEF Registered
  <2>3. conn' = [k \in Connections |->
                   IF k \in Waiters(c)
                   THEN [conn[k] EXCEPT !.phase = "attached", !.engine = opening[c]]
                   ELSE conn[k]]
    BY <1>6 DEF Opened
  <2>4. ASSUME NEW k \in Connections
        PROVE  /\ conn'[k].phase # "closed" => conn'[k].campaign # None
               /\ conn'[k].phase = "waiting" => opening'[conn'[k].campaign] # None
               /\ conn'[k].phase = "attached" => conn'[k].engine # None
    <3>1. CASE k \in Waiters(c)
      BY <2>1, <2>3, <3>1 DEF Waiters, TypeOK, Conn
    <3>2. CASE k \notin Waiters(c)
      <4>1. conn'[k] = conn[k]
        BY <2>3, <3>2
      <4>2. conn[k].phase = "waiting" =>
              conn[k].campaign \in Campaigns /\ conn[k].campaign # c
        BY <3>2 DEF Waiters, OpensAwaited, TypeOK, Conn
      <4>3. QED
        BY <2>1, <4>1, <4>2 DEF OpensAwaited, TypeOK
    <3>3. QED
      BY <3>1, <3>2
  <2>5. ASSUME NEW d \in Campaigns, opening'[d] # None
        PROVE  /\ \E k \in Connections : conn'[k].phase = "waiting" /\ conn'[k].campaign = d
               /\ \A l \in Connections :
                    ~(conn'[l].phase = "attached" /\ conn'[l].engine = opening'[d])
    <3>1. d # c /\ opening'[d] = opening[d] /\ opening[d] # opening[c]
      BY <2>1, <2>2, <2>5 DEF TypeOK
    <3>2. PICK k \in Connections : conn[k].phase = "waiting" /\ conn[k].campaign = d
      BY <2>5, <3>1 DEF OpensAwaited
    <3>3. conn'[k] = conn[k]
      BY <2>3, <3>1, <3>2 DEF Waiters
    <3>4. Holders(opening[d]) = {}
      BY <2>5, <3>1 DEF OpensAwaited
    <3>5. ASSUME NEW l \in Connections
          PROVE  ~(conn'[l].phase = "attached" /\ conn'[l].engine = opening[d])
      <4>1. conn[l] \in Conn
        BY DEF TypeOK
      <4>2. CASE l \in Waiters(c)
        <5>1. conn'[l].engine = opening[c]
          BY <2>3, <4>1, <4>2 DEF Conn
        <5>2. QED
          BY <3>1, <5>1
      <4>3. CASE l \notin Waiters(c)
        BY <2>3, <3>4, <4>3 DEF Holders
      <4>4. QED
        BY <4>2, <4>3
    <3>6. QED
      BY <3>1, <3>2, <3>3, <3>5
  <2>6. QED
    BY <2>4, <2>5 DEF OpensAwaited, Holders
<1>7. ASSUME NEW c \in Campaigns, OpenFails(c)
      PROVE  OpensAwaited'
  BY <1>7 DEF OpenFails, OpensAwaited, Waiters, Holders, TypeOK, Conn, NoConn
<1>8. ASSUME NEW k \in Connections, Vanish(k)
      PROVE  OpensAwaited'
  BY <1>8 DEF Vanish, OpensAwaited, Holders, TypeOK, Conn, entryVars
<1>9. ASSUME NEW k \in Connections, Disconnect(k)
      PROVE  OpensAwaited'
  BY <1>9 DEF Disconnect, OpensAwaited, Holders, TypeOK, Conn, NoConn
<1>10. CASE UNCHANGED <<opening, conn>>
  BY <1>10 DEF OpensAwaited, Holders
<1>11. ASSUME NEW c \in Campaigns, ReleaseAgain(c) \/ IdleTimeout(c) \/ StrayTimeout(c)
       PROVE  UNCHANGED <<opening, conn>>
  BY <1>11 DEF ReleaseAgain, IdleTimeout, StrayTimeout
<1>12. CASE CloseAll \/ UNCHANGED vars
  BY <1>10, <1>12 DEF CloseAll, vars, entryVars
<1>13. QED
  BY <1>1, <1>2, <1>3, <1>4, <1>5, <1>6, <1>7, <1>8, <1>9, <1>10, <1>11,
     <1>12 DEF Next, Admit, OpenSettles

----------------------------------------------------------------------------
(* The parts that need release to be called once per acquire *)

\* An engine whose idle timer runs is held by nobody.
LEMMA TimerMeansIdle ==
  ASSUME extra = 0, TypeOK, CountIsExact, ~stopped, NEW c \in Campaigns, Armed(c)
  PROVE  Holders(entries[c]) = {}
<1>1. entries[c] \in Engines /\ timer[entries[c]]
  BY DEF Armed, TypeOK
<1>2. Cardinality(Holders(entries[c])) = 0
  BY <1>1 DEF CountIsExact, Armed
<1>3. QED
  BY <1>1, <1>2, ConnectionsCount, FS_EmptySet

\* No timeout without a handle comes into being.
LEMMA NoStraysStep ==
  ASSUME extra = 0, extra' = 0, TypeOK, HeldEngineIsOpen, CountIsExact,
         NoStrays, OpensAwaited, ~stopped, [Next]_vars
  PROVE  NoStrays'
<1>1. CASE UNCHANGED strays
  BY <1>1 DEF NoStrays
<1>2. ASSUME NEW k \in Connections, Disconnect(k)
      PROVE  UNCHANGED strays
  <2> DEFINE m == conn[k].campaign
             e == entries[m]
  <2>1. m \in Campaigns /\ conn[k].engine = e /\ k \in Holders(e)
    BY <1>2 DEF Disconnect, TypeOK, Conn, OpensAwaited, HeldEngineIsOpen, Holders
  <2>2. e # None
    BY <1>2, <2>1 DEF Disconnect, OpensAwaited
  <2>3. ~timer[e]
    BY <2>1, <2>2, TimerMeansIdle DEF Armed
  <2>4. Release(m)
    BY <1>2 DEF Disconnect
  <2>5. QED
    BY <2>2, <2>3, <2>4 DEF Release
<1>3. ASSUME NEW c \in Campaigns, StrayTimeout(c)
      PROVE  FALSE
  BY <1>3 DEF StrayTimeout, NoStrays
<1>4. ASSUME NEW c \in Campaigns, ReleaseAgain(c)
      PROVE  FALSE
  BY <1>4 DEF ReleaseAgain, TypeOK
<1>5. ASSUME NEW k \in Connections,
             (\E c \in Campaigns : Upgrade(k, c)) \/ Admit(k) \/ Vanish(k)
      PROVE  UNCHANGED strays
  BY <1>5 DEF Upgrade, Admit, Unauthorized, AcquireOpen, AcquireOpening,
              AcquireNew, Vanish, entryVars
<1>6. ASSUME NEW c \in Campaigns, OpenSettles(c) \/ IdleTimeout(c)
      PROVE  UNCHANGED strays
  <2>1. Opened(c) => UNCHANGED strays
    BY ZenonT(30) DEF Opened
  <2>2. OpenFails(c) => UNCHANGED strays
    BY ZenonT(30) DEF OpenFails
  <2>3. IdleTimeout(c) => UNCHANGED strays
    BY ZenonT(30) DEF IdleTimeout
  <2>4. QED
    BY <1>6, <2>1, <2>2, <2>3, ZenonT(30) DEF OpenSettles
<1>7. CASE CloseAll \/ UNCHANGED vars
  BY <1>1, <1>7 DEF CloseAll, vars, entryVars
<1>8. QED
  BY <1>1, <1>2, <1>3, <1>4, <1>5, <1>6, <1>7 DEF Next

\* A step keeps the engines that connections hold, whatever it does to the
\* others.
LEMMA HeldStep ==
  ASSUME extra = 0, extra' = 0, TypeOK, Registered, NoOrphanEngine, OpensAwaited,
         HeldEngineIsOpen, CountIsExact, NoStrays, ~stopped, [Next]_vars
  PROVE  HeldEngineIsOpen'
<1> USE ManagerAssumption
<1>1. ASSUME NEW k \in Connections, \/ \E c \in Campaigns : Upgrade(k, c)
                                    \/ Unauthorized(k) \/ AcquireOpening(k)
                                    \/ Vanish(k) \/ Disconnect(k)
      PROVE  HeldEngineIsOpen'
  <2>1. UNCHANGED <<entries, status, stopped>>
    BY <1>1 DEF Upgrade, Unauthorized, AcquireOpening, Vanish, Disconnect, entryVars
  <2>2. \A l \in Connections : conn'[l].phase = "attached" =>
          /\ conn[l].phase = "attached"
          /\ conn'[l].campaign = conn[l].campaign /\ conn'[l].engine = conn[l].engine
    <3>1. TAKE l \in Connections
    <3>2. CASE l # k
      BY <1>1, <3>2 DEF Upgrade, Unauthorized, AcquireOpening, Vanish, Disconnect,
                        TypeOK
    <3>3. CASE l = k
      <4>1. conn[k] \in Conn
        BY DEF TypeOK
      <4>2. conn'[k].phase # "attached"
        <5>1. ASSUME NEW c \in Campaigns, Upgrade(k, c)
              PROVE  conn'[k].phase # "attached"
          BY <5>1 DEF Upgrade, TypeOK, NoConn
        <5>2. Unauthorized(k) \/ Disconnect(k) => conn'[k].phase # "attached"
          BY DEF Unauthorized, Disconnect, TypeOK, NoConn
        <5>3. AcquireOpening(k) => conn'[k].phase # "attached"
          BY <4>1 DEF AcquireOpening, TypeOK, Conn
        <5>4. Vanish(k) => conn'[k].phase # "attached"
          BY <4>1 DEF Vanish, TypeOK, Conn
        <5>5. QED
          BY <1>1, <5>1, <5>2, <5>3, <5>4
      <4>3. QED
        BY <3>3, <4>2
    <3>4. QED
      BY <3>2, <3>3
  <2>3. QED
    BY <2>1, <2>2 DEF HeldEngineIsOpen
<1>2. ASSUME NEW k \in Connections, AcquireOpen(k)
      PROVE  HeldEngineIsOpen'
  <2>1. conn[k].campaign \in Campaigns
    BY <1>2 DEF AcquireOpen, TypeOK, Conn, OpensAwaited
  <2>2. status[entries[conn[k].campaign]] = "open"
    BY <1>2, <2>1 DEF AcquireOpen, Registered
  <2>3. QED
    BY <1>2, <2>2 DEF AcquireOpen, HeldEngineIsOpen, TypeOK, Conn
<1>3. ASSUME NEW k \in Connections, AcquireNew(k)
      PROVE  HeldEngineIsOpen'
  <2>1. UNCHANGED <<entries, stopped>>
        /\ \E e \in Engines : /\ status[e] = "closed"
                              /\ status' = [status EXCEPT ![e] = "opening"]
    BY <1>3 DEF AcquireNew
  <2>2. \A f \in Engines : status[f] = "open" => status'[f] = "open"
    BY <2>1 DEF TypeOK
  <2>3. \A l \in Connections : conn'[l].phase = "attached" =>
          conn'[l] = conn[l] /\ conn[l].engine \in Engines
    BY <1>3 DEF AcquireNew, TypeOK, Conn, OpensAwaited
  <2>4. QED
    BY <2>1, <2>2, <2>3 DEF HeldEngineIsOpen
<1>4. ASSUME NEW c \in Campaigns, Opened(c)
      PROVE  HeldEngineIsOpen'
  <2>1. /\ opening[c] \in Engines /\ entries[c] = None
        /\ entries' = [entries EXCEPT ![c] = opening[c]]
        /\ status' = [status EXCEPT ![opening[c]] = "open"]
        /\ conn' = [k \in Connections |->
                      IF k \in Waiters(c)
                      THEN [conn[k] EXCEPT !.phase = "attached", !.engine = opening[c]]
                      ELSE conn[k]]
    BY <1>4, OpenedRegisters DEF Opened, NoOrphanEngine
  <2>2. ASSUME NEW k \in Connections, conn'[k].phase = "attached"
        PROVE  /\ entries'[conn'[k].campaign] = conn'[k].engine
               /\ status'[conn'[k].engine] = "open"
    <3>1. CASE k \in Waiters(c)
      <4>1. conn'[k].campaign = c /\ conn'[k].engine = opening[c]
        BY <2>1, <3>1 DEF Waiters, TypeOK, Conn
      <4>2. QED
        BY <2>1, <4>1 DEF TypeOK
    <3>2. CASE k \notin Waiters(c)
      <4>1. conn'[k] = conn[k]
        BY <2>1, <3>2
      <4>2. conn[k].campaign \in Campaigns /\ conn[k].engine \in Engines
        BY <2>2, <4>1 DEF OpensAwaited, TypeOK, Conn
      <4>3. entries[conn[k].campaign] = conn[k].engine /\ status[conn[k].engine] = "open"
        BY <2>2, <4>1 DEF HeldEngineIsOpen
      <4>4. QED
        BY <2>1, <4>1, <4>2, <4>3 DEF TypeOK
    <3>3. QED
      BY <3>1, <3>2
  <2>3. QED
    BY <2>2 DEF HeldEngineIsOpen
<1>5. ASSUME NEW c \in Campaigns, OpenFails(c)
      PROVE  HeldEngineIsOpen'
  <2>1. opening[c] \in Engines /\ status[opening[c]] = "opening"
    BY <1>5 DEF OpenFails, TypeOK, Registered
  <2>2. \A f \in Engines : status[f] = "open" => status'[f] = "open"
    BY <1>5, <2>1 DEF OpenFails, TypeOK
  <2>3. \A l \in Connections : conn'[l].phase = "attached" =>
          conn'[l] = conn[l] /\ conn[l].engine \in Engines
    BY <1>5 DEF OpenFails, TypeOK, Conn, NoConn, OpensAwaited
  <2>4. UNCHANGED <<entries, stopped>>
    BY <1>5 DEF OpenFails
  <2>5. QED
    BY <2>2, <2>3, <2>4 DEF HeldEngineIsOpen
<1>6. ASSUME NEW c \in Campaigns, IdleTimeout(c)
      PROVE  HeldEngineIsOpen'
  <2>1. entries[c] \in Engines /\ Holders(entries[c]) = {}
    BY <1>6, TimerMeansIdle DEF IdleTimeout, Armed, TypeOK
  <2>2. \A l \in Connections : conn[l].phase = "attached" =>
          conn[l].engine # entries[c] /\ conn[l].campaign # c
    BY <2>1 DEF Holders, HeldEngineIsOpen
  <2>3. \A l \in Connections : conn[l].phase = "attached" =>
          conn[l].engine \in Engines /\ conn[l].campaign \in Campaigns
    BY DEF OpensAwaited, TypeOK, Conn
  <2>4. QED
    BY <1>6, <2>1, <2>2, <2>3 DEF IdleTimeout, HeldEngineIsOpen, TypeOK
<1>7. ASSUME NEW c \in Campaigns, StrayTimeout(c) \/ ReleaseAgain(c)
      PROVE  FALSE
  BY <1>7 DEF StrayTimeout, NoStrays, ReleaseAgain, TypeOK
<1>8. CASE CloseAll
  BY <1>8 DEF CloseAll, HeldEngineIsOpen
<1>9. CASE UNCHANGED vars
  BY <1>9 DEF vars, entryVars, HeldEngineIsOpen
<1>10. QED
  BY <1>1, <1>2, <1>3, <1>4, <1>5, <1>6, <1>7, <1>8, <1>9
     DEF Next, Admit, OpenSettles

\* While the holders, the entries and the counts stay, so does the relation
\* between them.
LEMMA CountKept ==
  ASSUME extra = 0, TypeOK, CountIsExact, ~stopped,
         UNCHANGED <<entries, refCount, timer>>,
         NEW k \in Connections,
         \A l \in Connections \ {k} : conn'[l] = conn[l],
         conn[k].phase # "attached", conn'[k].phase # "attached"
  PROVE  CountIsExact'
<1>1. \A e \in Engines : Holders(e)' = Holders(e)
  BY DEF Holders
<1>2. \A c \in Campaigns : entries[c] # None => entries[c] \in Engines
  BY DEF TypeOK
<1>3. QED
  BY <1>1, <1>2 DEF CountIsExact

\* A connection that joins or leaves is counted, and the idle timer follows.
LEMMA CountStep ==
  ASSUME extra = 0, extra' = 0, TypeOK, Registered, NoOrphanEngine, OpensAwaited,
         HeldEngineIsOpen, CountIsExact, NoStrays, ~stopped, [Next]_vars
  PROVE  CountIsExact'
<1> USE ManagerAssumption
<1>1. ASSUME NEW k \in Connections, NEW c \in Campaigns, Upgrade(k, c)
      PROVE  CountIsExact'
  BY <1>1, CountKept DEF Upgrade, TypeOK, NoConn, entryVars
<1>2. ASSUME NEW k \in Connections, Unauthorized(k)
      PROVE  CountIsExact'
  BY <1>2, CountKept DEF Unauthorized, TypeOK, NoConn, entryVars
<1>3. ASSUME NEW k \in Connections, AcquireOpening(k) \/ AcquireNew(k)
      PROVE  CountIsExact'
  BY <1>3, CountKept DEF AcquireOpening, AcquireNew, TypeOK, Conn, entryVars
<1>4. ASSUME NEW k \in Connections, Vanish(k)
      PROVE  CountIsExact'
  BY <1>4, CountKept DEF Vanish, TypeOK, Conn, entryVars
<1>5. ASSUME NEW k \in Connections, AcquireOpen(k)
      PROVE  CountIsExact'
  <2>1. conn[k].campaign \in Campaigns
    BY <1>5 DEF AcquireOpen, TypeOK, Conn, OpensAwaited
  <2>2. PICK m \in Campaigns, e \in Engines :
          /\ e = entries[m] /\ e # None
          /\ refCount' = [refCount EXCEPT ![e] = @ + 1]
          /\ timer' = [timer EXCEPT ![e] = FALSE]
          /\ conn' = [conn EXCEPT ![k].phase = "attached", ![k].engine = e]
    BY <1>5, <2>1 DEF AcquireOpen, TypeOK
  <2>3. UNCHANGED entries /\ conn[k].phase = "resolving"
    BY <1>5 DEF AcquireOpen
  <2>4. conn'[k].phase = "attached" /\ conn'[k].engine = e
    BY <2>2 DEF TypeOK, Conn
  <2>5. \A l \in Connections \ {k} : conn'[l] = conn[l]
    BY <2>2 DEF TypeOK
  <2>6. Holders(e)' = Holders(e) \cup {k} /\ k \notin Holders(e)
    BY <2>3, <2>4, <2>5 DEF Holders
  <2>7. Cardinality(Holders(e)') = Cardinality(Holders(e)) + 1
    BY <2>6, ConnectionsCount, FS_AddElement
  <2>8. refCount[e] = Cardinality(Holders(e)) /\ refCount[e] \in Nat
    BY <2>2 DEF CountIsExact, TypeOK
  <2>9. ASSUME NEW f \in Engines, NEW c \in Campaigns, entries[c] = f
        PROVE  /\ refCount'[f] = Cardinality(Holders(f)')
               /\ timer'[f] <=> refCount'[f] = 0
    <3>1. CASE f = e
      BY <2>2, <2>7, <2>8, <3>1 DEF TypeOK
    <3>2. CASE f # e
      <4>1. Holders(f)' = Holders(f)
        BY <2>3, <2>4, <2>5, <3>2 DEF Holders
      <4>2. refCount'[f] = refCount[f] /\ timer'[f] = timer[f]
        BY <2>2, <3>2 DEF TypeOK
      <4>3. QED
        BY <2>9, <4>1, <4>2 DEF CountIsExact
    <3>3. QED
      BY <3>1, <3>2
  <2>10. QED
    BY <2>3, <2>9 DEF CountIsExact, TypeOK
<1>6. ASSUME NEW c \in Campaigns, Opened(c)
      PROVE  CountIsExact'
  <2>1. PICK e \in Engines :
          /\ e = opening[c] /\ \A d \in Campaigns : entries[d] # e
          /\ entries' = [entries EXCEPT ![c] = e]
          /\ refCount' = [refCount EXCEPT ![e] = Cardinality(Waiters(c))]
          /\ timer' = [timer EXCEPT ![e] = FALSE]
          /\ conn' = [k \in Connections |->
                        IF k \in Waiters(c)
                        THEN [conn[k] EXCEPT !.phase = "attached", !.engine = e]
                        ELSE conn[k]]
    BY <1>6, OpenedRegisters DEF Opened
  <2>2. Holders(e) = {} /\ \E k \in Connections : k \in Waiters(c)
    BY <2>1 DEF OpensAwaited, Waiters
  <2>3. \A k \in Waiters(c) : conn'[k].phase = "attached" /\ conn'[k].engine = e
    BY <2>1 DEF Waiters, TypeOK, Conn
  <2>4. \A k \in Connections \ Waiters(c) : conn'[k] = conn[k]
    BY <2>1
  <2>5. Waiters(c) \subseteq Connections
        /\ \A k \in Waiters(c) : conn[k].phase = "waiting"
    BY DEF Waiters
  <2>6. Holders(e)' = Waiters(c)
    BY <2>2, <2>3, <2>4, <2>5 DEF Holders
  <2>7. Cardinality(Waiters(c)) \in Nat /\ Cardinality(Waiters(c)) # 0
    BY <2>2, ConnectionsCount, FS_EmptySet
  <2>8. ASSUME NEW f \in Engines, NEW d \in Campaigns, entries'[d] = f
        PROVE  /\ refCount'[f] = Cardinality(Holders(f)')
               /\ timer'[f] <=> refCount'[f] = 0
    <3>1. CASE f = e
      BY <2>1, <2>6, <2>7, <3>1 DEF TypeOK
    <3>2. CASE f # e
      <4>1. Holders(f)' = Holders(f)
        BY <2>3, <2>4, <2>5, <3>2 DEF Holders
      <4>2. refCount'[f] = refCount[f] /\ timer'[f] = timer[f] /\ entries[d] = f
        BY <2>1, <2>8, <3>2 DEF TypeOK
      <4>3. QED
        BY <4>1, <4>2 DEF CountIsExact
    <3>3. QED
      BY <3>1, <3>2
  <2>9. \A d \in Campaigns : entries'[d] # None => entries'[d] \in Engines
    BY <2>1 DEF TypeOK
  <2>10. QED
    BY <2>8, <2>9 DEF CountIsExact
<1>7. ASSUME NEW c \in Campaigns, OpenFails(c)
      PROVE  CountIsExact'
  <2>1. \A e \in Engines : Holders(e)' = Holders(e)
    BY <1>7 DEF OpenFails, Holders, Waiters, NoConn
  <2>2. \A d \in Campaigns : entries[d] # None => entries[d] \in Engines
    BY DEF TypeOK
  <2>3. UNCHANGED <<entries, refCount, timer>>
    BY <1>7 DEF OpenFails
  <2>4. QED
    BY <2>1, <2>2, <2>3 DEF CountIsExact
<1>8. ASSUME NEW k \in Connections, Disconnect(k)
      PROVE  CountIsExact'
  <2>1. /\ conn[k].campaign \in Campaigns /\ conn[k].engine \in Engines
        /\ entries[conn[k].campaign] = conn[k].engine
        /\ conn[k].phase = "attached" /\ Release(conn[k].campaign)
    BY <1>8 DEF Disconnect, TypeOK, Conn, OpensAwaited, HeldEngineIsOpen
  <2>2. PICK m \in Campaigns, e \in Engines :
          conn[k].campaign = m /\ conn[k].engine = e /\ entries[m] = e /\ Release(m)
    BY <2>1
  <2>3. UNCHANGED entries /\ conn' = [conn EXCEPT ![k] = NoConn]
    BY <1>8 DEF Disconnect
  <2>4. conn'[k].phase = "closed" /\ \A l \in Connections \ {k} : conn'[l] = conn[l]
    BY <2>3 DEF TypeOK, NoConn
  <2>5. Holders(e)' = Holders(e) \ {k} /\ k \in Holders(e)
    BY <2>1, <2>2, <2>4 DEF Holders
  <2>6. Cardinality(Holders(e)') = Cardinality(Holders(e)) - 1
    BY <2>5, ConnectionsCount, FS_RemoveElement
  <2>7. /\ refCount[e] = Cardinality(Holders(e)) /\ refCount[e] \in Nat
        /\ timer[e] <=> refCount[e] = 0
    BY <2>2 DEF CountIsExact, TypeOK
  <2>8. refCount[e] > 0 /\ ~timer[e]
    BY <2>5, <2>7, ConnectionsCount, FS_EmptySet
  <2>9. /\ refCount' = [refCount EXCEPT ![e] = refCount[e] - 1]
        /\ timer' = IF refCount[e] - 1 = 0 THEN [timer EXCEPT ![e] = TRUE] ELSE timer
    BY <2>2, <2>8 DEF Release
  <2>10. ASSUME NEW f \in Engines, NEW c \in Campaigns, entries[c] = f
         PROVE  /\ refCount'[f] = Cardinality(Holders(f)')
                /\ timer'[f] <=> refCount'[f] = 0
    <3>1. CASE f = e
      <4>1. refCount'[e] = refCount[e] - 1
        BY <2>9 DEF TypeOK
      <4>2. timer'[e] <=> refCount[e] - 1 = 0
        BY <2>8, <2>9 DEF TypeOK
      <4>3. QED
        BY <2>6, <2>7, <3>1, <4>1, <4>2
    <3>2. CASE f # e
      <4>1. Holders(f)' = Holders(f)
        BY <2>2, <2>4, <3>2 DEF Holders
      <4>2. refCount'[f] = refCount[f] /\ timer'[f] = timer[f]
        BY <2>9, <3>2 DEF TypeOK
      <4>3. QED
        BY <2>10, <4>1, <4>2 DEF CountIsExact
    <3>3. QED
      BY <3>1, <3>2
  <2>11. QED
    BY <2>3, <2>10 DEF CountIsExact, TypeOK
<1>9. ASSUME NEW c \in Campaigns, IdleTimeout(c)
      PROVE  CountIsExact'
  <2>1. UNCHANGED <<refCount, conn>>
    BY <1>9 DEF IdleTimeout
  <2>2. \A e \in Engines : Holders(e)' = Holders(e)
    BY <2>1 DEF Holders
  <2>3. \A d \in Campaigns : entries'[d] # None =>
          /\ entries'[d] = entries[d] /\ entries[d] \in Engines
          /\ timer'[entries[d]] = timer[entries[d]]
    BY <1>9 DEF IdleTimeout, Registered, TypeOK
  <2>4. QED
    BY <2>1, <2>2, <2>3 DEF CountIsExact
<1>10. ASSUME NEW c \in Campaigns, StrayTimeout(c) \/ ReleaseAgain(c)
       PROVE  FALSE
  BY <1>10 DEF StrayTimeout, NoStrays, ReleaseAgain, TypeOK
<1>11. CASE CloseAll
  BY <1>11 DEF CloseAll, CountIsExact
<1>12. CASE UNCHANGED vars
  BY <1>12 DEF vars, entryVars, CountIsExact, Holders
<1>13. QED
  BY <1>1, <1>2, <1>3, <1>4, <1>5, <1>6, <1>7, <1>8, <1>9, <1>10, <1>11,
     <1>12 DEF Next, Admit, OpenSettles

----------------------------------------------------------------------------
(* The theorems *)

\* The invariant holds in every reachable state.
THEOREM Inductive == Spec => []IInv
<1>1. Init => IInv
  BY InitIInv
<1>2. IInv /\ [Next]_vars => IInv'
  <2> SUFFICES ASSUME IInv, [Next]_vars
               PROVE  IInv'
    OBVIOUS
  <2> USE DEF IInv
  <2>1. TypeOK' /\ Registered' /\ NoOrphanEngine' /\ OpensAwaited'
    BY TypeStep, RegisteredStep, OrphanStep, AwaitedStep
  <2>2. stopped => stopped'
    BY ZenonT(60) DEF Next, vars, entryVars, Admit, OpenSettles, Upgrade, Unauthorized,
           AcquireOpen, AcquireOpening, AcquireNew, Opened, OpenFails, Vanish,
           Disconnect, ReleaseAgain, IdleTimeout, StrayTimeout, CloseAll
  <2>3. extra' = 0 => extra = 0
    <3>1. ASSUME NEW c \in Campaigns, ReleaseAgain(c)
          PROVE  extra' # 0
      BY <3>1 DEF ReleaseAgain, TypeOK
    <3>2. (\E c \in Campaigns : ReleaseAgain(c)) \/ UNCHANGED extra
      BY ZenonT(60) DEF Next, vars, entryVars, Admit, OpenSettles, Upgrade, Unauthorized,
             AcquireOpen, AcquireOpening, AcquireNew, Opened, OpenFails, Vanish,
             Disconnect, IdleTimeout, StrayTimeout, CloseAll
    <3>3. QED
      BY <3>1, <3>2
  <2>4. ~stopped' /\ extra' = 0
          => HeldEngineIsOpen' /\ CountIsExact' /\ NoStrays'
    BY <2>2, <2>3, HeldStep, CountStep, NoStraysStep
  <2>5. QED
    BY <2>1, <2>4
<1>3. QED
  BY <1>1, <1>2, PTL DEF Spec

\* Every variable keeps its type; in particular no count goes below zero,
\* however often release is called.
THEOREM TypeCorrect == Spec => []TypeOK
<1>1. IInv => TypeOK
  BY DEF IInv
<1>2. QED
  BY <1>1, Inductive, PTL

\* No engine is left running that no campaign knows of, however often
\* release is called and whatever opens, timeouts and the shutdown do.
THEOREM NoOrphan == Spec => []NoOrphanEngine
<1>1. IInv => NoOrphanEngine
  BY DEF IInv
<1>2. QED
  BY <1>1, Inductive, PTL

\* While release is called once per acquire, as the route does, the engine of
\* an attached connection is never closed under it.
THEOREM HeldOpen == Spec => []HeldEngineIsOpen
<1>1. IInv => HeldEngineIsOpen
  BY DEF IInv, HeldEngineIsOpen
<1>2. QED
  BY <1>1, Inductive, PTL

\* As long, the count is the number of attached connections and the idle
\* timer runs exactly when there are none.
THEOREM Counted == Spec => []CountIsExact
<1>1. IInv => CountIsExact
  BY DEF IInv, CountIsExact
<1>2. QED
  BY <1>1, Inductive, PTL

=============================================================================
