---------------------------- MODULE MCEngineCore ---------------------------
(***************************************************************************)
(* Instances of EngineCore for TLC: a small campaign seeded like the       *)
(* development database (one active scene with two tokens, of which the    *)
(* player's actor owns one) and, for each question, the requests asked.    *)
(***************************************************************************)
EXTENDS EngineCore

LOCAL INSTANCE SequencesExt

CONSTANTS s1, s2, t1, t2, a1, a2, gm, pl, p1, p2, d1

\* A request whose payload has no field by the name of an injected one: only
\* actor.linkSeat says a seatId.
Asked(seat, r) ==
  [seatId |-> seat, request |-> r,
   said |-> [seatId |-> IF r.kind = "actor.linkSeat" THEN r.seatId ELSE None,
             isGm |-> None]]

GmInputs(R) == {Asked(gm, r) : r \in R}
PlInputs(R) == {Asked(pl, r) : r \in R}

\* The GM asks in the name of the player, who need not own the token.
NamedInputs(R) ==
  {[seatId |-> gm, request |-> r, said |-> [seatId |-> pl, isGm |-> FALSE]] : r \in R}

SceneRequests ==
       [kind : {"scene.create"}, sceneId : {s2}, data : {NoData}]
  \cup [kind : {"scene.delete", "scene.setActive"}, sceneId : {s1, s2}]

TokenCreate ==
  [kind : {"token.create"}, tokenId : {t1}, actorId : {a1},
   sceneId : {s1, s2}, position : {p1}, hidden : {FALSE}, data : {NoData}]

Moves == [kind : {"token.move"}, tokenId : {t1}, position : {p2}]

Links == [kind : {"actor.linkSeat"}, actorId : {a1, a2}, seatId : {pl},
          permission : {"control", "read"}]

\* Scenes come and go while tokens are put on them.
BoardInputs ==
  GmInputs(SceneRequests \cup TokenCreate
           \cup [kind : {"token.delete"}, tokenId : {t1}])
  \cup PlInputs(Moves)

\* A scene goes and comes back with the next open; a token is put on it.
ReopenInputs ==
  GmInputs([kind : {"scene.delete"}, sceneId : {s1}] \cup TokenCreate
           \cup [kind : {"token.delete"}, tokenId : {t1}])

\* Permissions change while a player moves tokens.
PermissionInputs ==
  GmInputs(Links
           \cup [kind : {"token.linkToActor"}, tokenId : {t1}, actorId : {a1, a2}]
           \cup [kind : {"actor.delete"}, actorId : {a1}]
           \cup [kind : {"actor.create"}, actorId : {a1}, data : {NoData},
                 seatPermissions : {[s \in Seats |-> "none"]}])
  \cup PlInputs(Moves \cup [kind : {"token.delete"}, tokenId : {t1}])
  \cup NamedInputs(Moves)

\* The data blobs of entities, with the hook that derives fields from them.
DataInputs ==
  GmInputs([kind : {"actor.replaceData"}, actorId : {a1}, data : {d1}]
           \cup [kind : {"token.replaceData"}, tokenId : {t1}, data : {d1}]
           \cup [kind : {"scene.replaceData"}, sceneId : {s1}, data : {d1}]
           \cup [kind : {"actor.create"}, actorId : {a1}, data : {d1},
                 seatPermissions : {[s \in Seats |-> "none"]}]
           \cup [kind : {"actor.delete"}, actorId : {a1}])
  \cup PlInputs([kind : {"chat.send"}] \cup Moves)

\* Everything but scenes.
OtherInputs == PermissionInputs \cup DataInputs

\* Cascades, and moves that announce themselves, so that one request has
\* several intents.
AtomicInputs ==
  GmInputs(SceneRequests \cup [kind : {"token.delete"}, tokenId : {t1}])
  \cup PlInputs(Moves)

SeedToken(a) == [actorId |-> a, sceneId |-> s1, position |-> p1,
                 hidden |-> FALSE, data |-> NoData]

DevSeed ==
  [activeSceneId |-> s1,
   scenes |-> [s \in SceneIds |-> IF s = s1 THEN NoData ELSE None],
   tokens |-> [t \in TokenIds |->
                 IF t = t1 THEN SeedToken(a1) ELSE IF t = t2 THEN SeedToken(a2) ELSE None],
   actors |-> [a \in ActorIds |->
                 [seatPermissions |-> [s \in Seats |->
                     IF a = a1 /\ s = pl THEN "control" ELSE "none"],
                  data |-> NoData]]]

----------------------------------------------------------------------------
(* The merging of intents, as the code computes it *)

\* The loop of mergeIntents goes from the last intent to the first and keeps
\* what collides with nothing it has kept.
mergeLoop(flat) ==
  FoldRight(LAMBDA i, merged : IF \E m \in DOMAIN merged : Collides(i, merged[m])
                               THEN merged ELSE <<i>> \o merged,
            flat, << >>)

MergeSamples ==
  {[kind |-> "chat.send"]}
  \cup [kind : {"token.move"}, tokenId : {t1, t2}, position : {p1, p2}]
  \cup [kind : {"actor.linkSeat"}, actorId : {a1}, seatId : {gm, pl}, permission : {"read"}]
  \cup [kind : {"scene.setActive"}, sceneId : {s1, s2}]

\* For up to three intents the loop returns what mergeIntents is defined to be.
ASSUME MergeIsLoop ==
  \A n \in 0..3 : \A flat \in [1..n -> MergeSamples] : mergeLoop(flat) = mergeIntents(flat)

============================================================================
