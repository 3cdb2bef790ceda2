--------------------------- MODULE MCClientMirror --------------------------
(***************************************************************************)
(* Instances of ClientMirror for TLC: a player's client, a board of two    *)
(* scenes, and a GM who plays at the same time.                            *)
(***************************************************************************)
EXTENDS ClientMirror

CONSTANTS s1, s2, t1, t2, a1, gm, pl, p1, p2

By(seat, R) ==
  {[seatId |-> seat, request |-> r,
    said |-> [seatId |-> IF r.kind = "actor.linkSeat" THEN r.seatId ELSE None,
              isGm |-> None]] : r \in R}

\* The GM takes away control, moves, deletes and creates tokens, shows the
\* other scene or clears the table; the player moves a token on another
\* device.
PlayInputs ==
  By(gm, [kind : {"actor.linkSeat"}, actorId : {a1}, seatId : {pl},
          permission : {"read"}]
         \cup [kind : {"token.move"}, tokenId : {t1}, position : {p2}]
         \cup [kind : {"token.delete"}, tokenId : {t1}]
         \cup [kind : {"token.create"}, tokenId : {t1}, actorId : {a1},
               sceneId : {s1}, position : {p2}, hidden : BOOLEAN, data : {NoData}]
         \cup [kind : {"scene.setActive"}, sceneId : {s2}]
         \cup [kind : {"scene.delete"}, sceneId : {s1}])
  \cup By(pl, [kind : {"token.move"}, tokenId : {t1}, position : {p1}])

\* The GM prepares a second scene and shows it.
SceneInputs ==
  By(gm, [kind : {"scene.setActive"}, sceneId : {s1, s2}])

\* The GM puts a token on the table, hidden or not.
HideInputs ==
  By(gm, [kind : {"token.delete"}, tokenId : {t1}]
         \cup [kind : {"token.create"}, tokenId : {t1}, actorId : {a1}, sceneId : {s1},
               position : {p2}, hidden : BOOLEAN, data : {NoData}])

MoveInputs ==
  By(gm, [kind : {"token.move"}, tokenId : {t1}, position : {p2}])

SeedToken(s) == [actorId |-> a1, sceneId |-> s, position |-> p1,
                 hidden |-> FALSE, data |-> NoData]

\* Token t1 is on the active scene, t2 on the other.
TwoScenes ==
  [activeSceneId |-> s1,
   scenes |-> [s \in SceneIds |-> NoData],
   tokens |-> [t \in TokenIds |-> IF t = t1 THEN SeedToken(s1) ELSE SeedToken(s2)],
   actors |-> [a \in ActorIds |->
                 [seatPermissions |-> [s \in Seats |-> IF s = pl THEN "control" ELSE "none"],
                  data |-> NoData]]]

============================================================================
