--------------------------- MODULE CampaignState ---------------------------
(***************************************************************************)
(* The campaign state an engine keeps in memory, the requests the seats of *)
(* a campaign may dispatch, the checks the baseline resolvers make before  *)
(* they accept one, the intents they return, and what one intent does to   *)
(* the state and leaves in the event log.  Everything here is a pure       *)
(* function of a state record st; the processes are in EngineCore.         *)
(*                                                                         *)
(* Names of entities, positions and opaque data blobs are members of small *)
(* sets.  Wording, names, images and dice are left out: no decision of the *)
(* engine depends on them.                                                 *)
(***************************************************************************)
EXTENDS Naturals, Sequences, FiniteSets

CONSTANTS
  SceneIds, TokenIds, ActorIds,  \* identifiers a client may name
  Seats,                         \* the seat rows cached when the engine opens
  GmSeats,                       \* those whose role is 'gm'
  Positions,                     \* positions on a scene
  Data,                          \* values of an entity's opaque data field
  NoData,                        \* the empty data object {}
  None                           \* an absent entity, or a null reference

ASSUME IdsAssumption ==
  /\ None \notin SceneIds
  /\ IsFiniteSet(TokenIds)

ASSUME SeatsAssumption == GmSeats \subseteq Seats /\ None \notin Seats \cup BOOLEAN

ASSUME DataAssumption == NoData \in Data /\ None \notin Data

Permissions == {"control", "read", "none"}

Token == [actorId : ActorIds, sceneId : SceneIds,
          position : Positions, hidden : BOOLEAN, data : Data]
Actor == [seatPermissions : [Seats -> Permissions], data : Data]

ASSUME EntityAssumption == None \notin Token /\ None \notin Actor

\* The fields of the engine's CampaignState that requests read and change.
State == [activeSceneId : SceneIds \cup {None},
          scenes : [SceneIds -> Data \cup {None}],
          tokens : [TokenIds -> Token \cup {None}],
          actors : [ActorIds -> Actor \cup {None}]]

\* A request names its action type; the intent it becomes has the same kind
\* and the same fields (only dice.roll turns into a dice.result), so one
\* record serves both.  "none" stands for a seat without a permission entry.
Request ==
       [kind : {"token.move"}, tokenId : TokenIds, position : Positions]
  \cup [kind : {"chat.send", "dice.roll"}]
  \cup [kind : {"token.create"}, tokenId : TokenIds, actorId : ActorIds,
        sceneId : SceneIds, position : Positions, hidden : BOOLEAN, data : Data]
  \cup [kind : {"token.delete"}, tokenId : TokenIds]
  \cup [kind : {"actor.create"}, actorId : ActorIds,
        seatPermissions : [Seats -> Permissions], data : Data]
  \cup [kind : {"actor.delete"}, actorId : ActorIds]
  \cup [kind : {"token.linkToActor"}, tokenId : TokenIds, actorId : ActorIds]
  \cup [kind : {"actor.linkSeat"}, actorId : ActorIds, seatId : Seats,
        permission : {"control", "read"}]
  \cup [kind : {"scene.create"}, sceneId : SceneIds, data : Data]
  \cup [kind : {"scene.delete", "scene.setActive"}, sceneId : SceneIds]
  \cup [kind : {"actor.replaceData"}, actorId : ActorIds, data : Data]
  \cup [kind : {"token.replaceData"}, tokenId : TokenIds, data : Data]
  \cup [kind : {"scene.replaceData"}, sceneId : SceneIds, data : Data]

Intent == Request

\* A request with the seat of the connection it came over.  Its payload may
\* have fields of its own by the names seatId (that of actor.linkSeat always
\* has) and isGm: said holds them, or None.
Input == [seatId : Seats, request : Request,
          said : [seatId : Seats \cup {None}, isGm : BOOLEAN \cup {None}]]

----------------------------------------------------------------------------
(* What the resolvers check *)

IsGm(seat) == seat \in GmSeats

\* The seat and the role a resolver is told: those of the connection, under
\* the fields of the payload, which are spread over them.
ResolverArgs(input) ==
  [seatId |-> IF input.said.seatId = None THEN input.seatId ELSE input.said.seatId,
   isGm   |-> IF input.said.isGm = None THEN IsGm(input.seatId) ELSE input.said.isGm]

TokenExists(st, t) == st.tokens[t] # None
ActorExists(st, a) == st.actors[a] # None
SceneExists(st, s) == st.scenes[s] # None

Controls(st, seat, a) ==
  ActorExists(st, a) /\ st.actors[a].seatPermissions[seat] = "control"

CanMoveToken(st, args, r) ==
  /\ r.kind = "token.move"
  /\ TokenExists(st, r.tokenId)
  /\ args.isGm \/ Controls(st, args.seatId, st.tokens[r.tokenId].actorId)

\* Chat and dice have no condition on the state, only on the text sent.
CanSpeak(r) == r.kind \in {"chat.send", "dice.roll"}

CanEditTokens(st, r) ==
  \/ /\ r.kind = "token.create"
     /\ ~TokenExists(st, r.tokenId)
     /\ ActorExists(st, r.actorId)
     /\ SceneExists(st, r.sceneId)
  \/ /\ r.kind \in {"token.delete", "token.replaceData"}
     /\ TokenExists(st, r.tokenId)
  \/ /\ r.kind = "token.linkToActor"
     /\ TokenExists(st, r.tokenId)
     /\ ActorExists(st, r.actorId)

CanEditActors(st, r) ==
  \/ /\ r.kind = "actor.create"
     /\ ~ActorExists(st, r.actorId)
  \/ /\ r.kind \in {"actor.delete", "actor.linkSeat", "actor.replaceData"}
     /\ ActorExists(st, r.actorId)

CanEditScenes(st, r) ==
  \/ /\ r.kind = "scene.create"
     /\ ~SceneExists(st, r.sceneId)
  \/ /\ r.kind \in {"scene.delete", "scene.setActive", "scene.replaceData"}
     /\ SceneExists(st, r.sceneId)

\* The resolver of r returns intents instead of throwing.
Resolves(st, args, r) ==
  \/ CanMoveToken(st, args, r)
  \/ CanSpeak(r)
  \/ args.isGm /\ (\/ CanEditTokens(st, r)
                   \/ CanEditActors(st, r)
                   \/ CanEditScenes(st, r))

----------------------------------------------------------------------------
(* The intents a resolver returns *)

TokensIn(st, s) == {t \in TokenIds : /\ TokenExists(st, t)
                                     /\ st.tokens[t].sceneId = s}

\* The orders in which the tokens of a scene may stand in the tokens Map.
Orders(S) == {q \in [1..Cardinality(S) -> S] : \A x \in S : \E i \in DOMAIN q : q[i] = x}

DeleteTokenIntent(t) == [kind |-> "token.delete", tokenId |-> t]

\* Mutation: the scene goes before its tokens.
CascadeSceneFirst(r, q) ==
  <<r>> \o [i \in 1..Len(q) |-> DeleteTokenIntent(q[i])]

\* scene.delete cascades: one token.delete for every token of the scene, and
\* then the scene.delete itself.
Cascade(r, q) ==
  Append([i \in 1..Len(q) |-> DeleteTokenIntent(q[i])], r)

\* What two intents of one kind must both name to be about the same thing.
collisionKey(i) ==
  CASE i.kind \in {"token.move", "token.create", "token.delete",
                   "token.linkToActor", "token.replaceData"} -> <<i.tokenId>>
    [] i.kind \in {"actor.create", "actor.delete", "actor.replaceData"} -> <<i.actorId>>
    [] i.kind = "actor.linkSeat" -> <<i.actorId, i.seatId>>
    [] i.kind \in {"scene.create", "scene.delete", "scene.replaceData"} -> <<i.sceneId>>
    [] OTHER -> << >>

\* Chat lines and dice results accumulate.
Collides(i, j) == /\ i.kind = j.kind /\ i.kind \notin {"chat.send", "dice.roll"}
                  /\ collisionKey(i) = collisionKey(j)

\* Of the intents of several resolvers that are about the same thing the last
\* one stays, at its place.
Kept(flat) == {n \in DOMAIN flat : \A m \in DOMAIN flat : m > n => ~Collides(flat[n], flat[m])}

mergeIntents(flat) ==
  [k \in 1..Cardinality(Kept(flat)) |->
     flat[CHOOSE n \in Kept(flat) : Cardinality({m \in Kept(flat) : m < n}) = k - 1]]

\* With the D&D ruleset loaded token.move has a second resolver, which
\* announces the move in chat; every other action has one, which returns one
\* intent.
IntentsOf(st, r, rulesets) ==
  CASE r.kind = "scene.delete" ->
         {Cascade(r, q) : q \in Orders(TokensIn(st, r.sceneId))}
    [] r.kind = "token.move" /\ "dnd" \in rulesets ->
         {mergeIntents(<<r, [kind |-> "chat.send"]>>)}
    [] OTHER -> {<<r>>}

----------------------------------------------------------------------------
(* What one intent does to the state *)

MoveToken(st, i) ==
  [st EXCEPT !.tokens[i.tokenId] =
     IF @ = None THEN None ELSE [@ EXCEPT !.position = i.position]]

\* Mutation: the data blob is forgotten.
CreateTokenWithoutData(st, i) ==
  [st EXCEPT !.tokens[i.tokenId] =
     [actorId |-> i.actorId, sceneId |-> i.sceneId, position |-> i.position,
      hidden |-> i.hidden]]

CreateToken(st, i) ==
  [st EXCEPT !.tokens[i.tokenId] =
     [actorId |-> i.actorId, sceneId |-> i.sceneId,
      position |-> i.position, hidden |-> i.hidden, data |-> i.data]]

DeleteToken(st, i) == [st EXCEPT !.tokens[i.tokenId] = None]

LinkToken(st, i) ==
  [st EXCEPT !.tokens[i.tokenId] =
     IF @ = None THEN None ELSE [@ EXCEPT !.actorId = i.actorId]]

ReplaceTokenData(st, i) ==
  [st EXCEPT !.tokens[i.tokenId] =
     IF @ = None THEN None ELSE [@ EXCEPT !.data = i.data]]

CreateActor(st, i) ==
  [st EXCEPT !.actors[i.actorId] =
     [seatPermissions |-> i.seatPermissions, data |-> i.data]]

DeleteActor(st, i) == [st EXCEPT !.actors[i.actorId] = None]

LinkSeat(st, i) ==
  [st EXCEPT !.actors[i.actorId] =
     IF @ = None THEN None
     ELSE [@ EXCEPT !.seatPermissions[i.seatId] = i.permission]]

ReplaceActorData(st, i) ==
  [st EXCEPT !.actors[i.actorId] =
     IF @ = None THEN None ELSE [@ EXCEPT !.data = i.data]]

CreateScene(st, i) == [st EXCEPT !.scenes[i.sceneId] = i.data]

DeleteScene(st, i) ==
  [st EXCEPT !.scenes[i.sceneId] = None,
             !.activeSceneId = IF @ = i.sceneId THEN None ELSE @]

ActivateScene(st, i) == [st EXCEPT !.activeSceneId = i.sceneId]

ReplaceSceneData(st, i) ==
  [st EXCEPT !.scenes[i.sceneId] = IF @ = None THEN None ELSE i.data]

\* The stateMutation closure that processIntent returns for intent i.
Mutate(st, i) ==
  CASE i.kind = "token.move"        -> MoveToken(st, i)
    [] i.kind = "token.create"      -> CreateToken(st, i)
    [] i.kind = "token.delete"      -> DeleteToken(st, i)
    [] i.kind = "token.linkToActor" -> LinkToken(st, i)
    [] i.kind = "token.replaceData" -> ReplaceTokenData(st, i)
    [] i.kind = "actor.create"      -> CreateActor(st, i)
    [] i.kind = "actor.delete"      -> DeleteActor(st, i)
    [] i.kind = "actor.linkSeat"    -> LinkSeat(st, i)
    [] i.kind = "actor.replaceData" -> ReplaceActorData(st, i)
    [] i.kind = "scene.create"      -> CreateScene(st, i)
    [] i.kind = "scene.delete"      -> DeleteScene(st, i)
    [] i.kind = "scene.setActive"   -> ActivateScene(st, i)
    [] i.kind = "scene.replaceData" -> ReplaceSceneData(st, i)
    [] OTHER                        -> st

\* The event that intent i leaves in the log and on the wire.  The created
\* events do not carry the data blob, nor token.created that the token is
\* hidden, nor actor.created the permissions: whoever applies one falls back
\* on the empty object, and on a token that is not hidden.
StoredEvent(i) ==
  CASE i.kind = "token.create" -> [i EXCEPT !.data = NoData, !.hidden = FALSE]
    [] i.kind = "scene.create" -> [i EXCEPT !.data = NoData]
    [] i.kind = "actor.create" ->
         [i EXCEPT !.data = NoData,
                   !.seatPermissions = [s \in Seats |-> "none"]]
    [] OTHER -> i

\* What the loop over the intents of a dispatch makes of the state, when no
\* other dispatch gets in between.
Applied(st, todo) ==
  LET after[i \in 0..Len(todo)] == IF i = 0 THEN st ELSE Mutate(after[i - 1], todo[i])
  IN  after[Len(todo)]

\* And the events it leaves.
StoredEvents(todo) == [i \in 1..Len(todo) |-> StoredEvent(todo[i])]

----------------------------------------------------------------------------
(* Notions used by the properties *)

\* The part of the state that the log's events carry in full: which scenes,
\* tokens and actors exist, where each token stands and whose it is.
Board(st) ==
  [activeSceneId |-> st.activeSceneId,
   scenes |-> {s \in SceneIds : SceneExists(st, s)},
   actors |-> {a \in ActorIds : ActorExists(st, a)},
   tokens |-> [t \in {u \in TokenIds : TokenExists(st, u)} |->
                 [actorId  |-> st.tokens[t].actorId,
                  sceneId  |-> st.tokens[t].sceneId,
                  position |-> st.tokens[t].position]]]

\* Every token stands on a scene that exists, and so does the active scene.
Integrity(st) ==
  /\ \A t \in TokenIds : TokenExists(st, t) => SceneExists(st, st.tokens[t].sceneId)
  /\ st.activeSceneId # None => SceneExists(st, st.activeSceneId)

\* Applied to st one after the other, the intents of q keep its integrity:
\* none adds an entity, and a scene goes only after all its tokens.
Safe(st, q) ==
  \A j \in 1..Len(q) :
    \/ q[j].kind \in {"token.delete", "chat.send"}
    \/ /\ q[j].kind = "scene.delete"
       /\ \A t \in TokensIn(st, q[j].sceneId) :
            \E k \in 1..(j - 1) : q[k] = DeleteTokenIntent(t)

============================================================================
