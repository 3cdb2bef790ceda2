------------------------- MODULE ClientMirrorProofs ------------------------
(***************************************************************************)
(* Theorems about ClientMirror for every board, every set of requests of   *)
(* the other seats, every order of messages and any number of drags and    *)
(* lost connections.                                                       *)
(***************************************************************************)
EXTENDS ClientMirror, CampaignStateProofs

(* What views, events and drags do to the mirror, whatever the time *)

\* A mirror mr with pending moves pd agrees with the board st, of which the
\* last view showed scene.
Agrees(mr, pd, st, scene) ==
  /\ mr.activeSceneId = st.activeSceneId
  /\ \A t \in TokenIds : TokenExists(mr, t) =>
       /\ TokenExists(st, t)
       /\ mr.tokens[t].actorId = st.tokens[t].actorId
       /\ mr.tokens[t].sceneId = st.tokens[t].sceneId
       /\ (IF pd[t] = None THEN mr.tokens[t].position ELSE pd[t]) = st.tokens[t].position
  /\ \A t \in TokenIds :
       TokenExists(st, t) /\ st.tokens[t].sceneId = scene /\ Visible(st.tokens[t])
         => TokenExists(mr, t)

\* The permissions in the mirror are those of the board, or fewer.
Permits(mr, st) ==
  \A a \in ActorIds : ActorExists(mr, a) =>
    /\ ActorExists(st, a)
    /\ mr.actors[a].seatPermissions[Me] \in {"none", st.actors[a].seatPermissions[Me]}

\* A view is a board.
LEMMA ViewType ==
  ASSUME NEW st \in State
  PROVE  ViewOf(st) \in State
BY DEF ViewOf, State, TokenExists, ActorExists, SceneExists

\* A view agrees with a board whose active scene exists.
LEMMA ViewAgrees ==
  ASSUME NEW st \in State, Integrity(st)
  PROVE  /\ Agrees(ViewOf(st), NoPending, st, ViewOf(st).activeSceneId)
         /\ Permits(ViewOf(st), st)
<1> DEFINE v == ViewOf(st)
<1>1. v.activeSceneId = st.activeSceneId
  BY DEF ViewOf, State, Integrity
<1>2. \A t \in TokenIds :
        v.tokens[t] = IF /\ TokenExists(st, t)
                         /\ st.tokens[t].sceneId = st.activeSceneId
                         /\ Visible(st.tokens[t])
                      THEN st.tokens[t] ELSE None
  BY DEF ViewOf
<1>3. \A a \in ActorIds : v.actors[a] \in {None, st.actors[a]}
  BY DEF ViewOf
<1>4. Agrees(v, NoPending, st, v.activeSceneId)
  BY <1>1, <1>2 DEF Agrees, NoPending, TokenExists
<1>5. Permits(v, st)
  BY <1>3 DEF Permits, ActorExists
<1>6. QED
  BY <1>4, <1>5

\* Only token k changed, and it agrees.
LEMMA OneToken ==
  ASSUME NEW mr, NEW mr2, NEW st, NEW st2, NEW pd, NEW pd2, NEW scene, NEW k,
         Agrees(mr, pd, st, scene),
         mr2.activeSceneId = mr.activeSceneId, st2.activeSceneId = st.activeSceneId,
         \A t \in TokenIds : t # k => /\ mr2.tokens[t] = mr.tokens[t]
                                      /\ st2.tokens[t] = st.tokens[t]
                                      /\ pd2[t] = pd[t],
         TokenExists(mr2, k) =>
           /\ TokenExists(st2, k)
           /\ mr2.tokens[k].actorId = st2.tokens[k].actorId
           /\ mr2.tokens[k].sceneId = st2.tokens[k].sceneId
           /\ (IF pd2[k] = None THEN mr2.tokens[k].position ELSE pd2[k])
                = st2.tokens[k].position,
         TokenExists(st2, k) /\ st2.tokens[k].sceneId = scene /\ Visible(st2.tokens[k])
           => TokenExists(mr2, k)
  PROVE  Agrees(mr2, pd2, st2, scene)
<1>1. ASSUME NEW t \in TokenIds, t # k
      PROVE  /\ TokenExists(mr2, t) <=> TokenExists(mr, t)
             /\ TokenExists(st2, t) <=> TokenExists(st, t)
             /\ mr2.tokens[t] = mr.tokens[t] /\ st2.tokens[t] = st.tokens[t]
             /\ pd2[t] = pd[t]
  BY <1>1 DEF TokenExists
<1>2. mr2.activeSceneId = st2.activeSceneId
  BY DEF Agrees
<1>3. ASSUME NEW t \in TokenIds
      PROVE  /\ TokenExists(mr2, t) =>
                  /\ TokenExists(st2, t)
                  /\ mr2.tokens[t].actorId = st2.tokens[t].actorId
                  /\ mr2.tokens[t].sceneId = st2.tokens[t].sceneId
                  /\ (IF pd2[t] = None THEN mr2.tokens[t].position ELSE pd2[t])
                       = st2.tokens[t].position
             /\ TokenExists(st2, t) /\ st2.tokens[t].sceneId = scene /\ Visible(st2.tokens[t])
                  => TokenExists(mr2, t)
  <2>1. CASE t = k
    BY <2>1
  <2>2. CASE t # k
    BY <1>1, <2>2 DEF Agrees
  <2>3. QED
    BY <2>1, <2>2
<1>4. QED
  BY <1>2, <1>3 DEF Agrees

\* Where the intents of one kind leave a state.
LEMMA TokenIntent ==
  ASSUME NEW st \in State, NEW i \in Intent,
         i.kind \in {"token.move", "token.create", "token.delete",
                     "token.linkToActor", "token.replaceData"}
  PROVE  LET st2 == Mutate(st, i)
             old == st.tokens[i.tokenId]
             new == st2.tokens[i.tokenId]
         IN  /\ st2.activeSceneId = st.activeSceneId
             /\ st2.actors = st.actors
             /\ \A t \in TokenIds : t # i.tokenId => st2.tokens[t] = st.tokens[t]
             /\ i.kind = "token.delete" => new = None
             /\ i.kind = "token.create" =>
                  /\ new # None /\ new.actorId = i.actorId
                  /\ new.sceneId = i.sceneId /\ new.position = i.position
             /\ i.kind \notin {"token.create", "token.delete"} =>
                  /\ new = None <=> old = None
                  /\ old # None =>
                       /\ new.sceneId = old.sceneId
                       /\ new.actorId = IF i.kind = "token.linkToActor"
                                        THEN i.actorId ELSE old.actorId
                       /\ new.position = IF i.kind = "token.move"
                                         THEN i.position ELSE old.position
                       /\ Visible(new) <=> Visible(old)
<1> USE RequestFields DEF Intent
<1> DEFINE old == st.tokens[i.tokenId]
<1>1. old \in Token \cup {None}
  BY DEF State
<1>2. CASE i.kind = "token.move"
  <2> DEFINE v == IF old = None THEN None ELSE [old EXCEPT !.position = i.position]
  <2>1. Mutate(st, i) = SetToken(st, i.tokenId, v)
    BY <1>2 DEF Mutate, MoveToken, SetToken
  <2>2. /\ v = None <=> old = None
        /\ old # None => /\ v.sceneId = old.sceneId /\ v.actorId = old.actorId
                         /\ v.position = i.position
    BY <1>1, <1>2, EntityAssumption DEF Token
  <2>3. old # None => (Visible(v) <=> Visible(old))
    BY <1>1 DEF Token, Visible
  <2> HIDE DEF v
  <2>4. QED
    BY <1>2, <2>1, <2>2, <2>3 DEF SetToken, State
<1>3. CASE i.kind = "token.linkToActor"
  <2> DEFINE v == IF old = None THEN None ELSE [old EXCEPT !.actorId = i.actorId]
  <2>1. Mutate(st, i) = SetToken(st, i.tokenId, v)
    BY <1>3 DEF Mutate, LinkToken, SetToken
  <2>2. /\ v = None <=> old = None
        /\ old # None => /\ v.sceneId = old.sceneId /\ v.actorId = i.actorId
                         /\ v.position = old.position
    BY <1>1, <1>3, EntityAssumption DEF Token
  <2>3. old # None => (Visible(v) <=> Visible(old))
    BY <1>1 DEF Token, Visible
  <2> HIDE DEF v
  <2>4. QED
    BY <1>3, <2>1, <2>2, <2>3 DEF SetToken, State
<1>4. CASE i.kind = "token.replaceData"
  <2> DEFINE v == IF old = None THEN None ELSE [old EXCEPT !.data = i.data]
  <2>1. Mutate(st, i) = SetToken(st, i.tokenId, v)
    BY <1>4 DEF Mutate, ReplaceTokenData, SetToken
  <2>2. /\ v = None <=> old = None
        /\ old # None => /\ v.sceneId = old.sceneId /\ v.actorId = old.actorId
                         /\ v.position = old.position
    BY <1>1, <1>4, EntityAssumption DEF Token
  <2>3. old # None => (Visible(v) <=> Visible(old))
    BY <1>1 DEF Token, Visible
  <2> HIDE DEF v
  <2>4. QED
    BY <1>4, <2>1, <2>2, <2>3 DEF SetToken, State
<1>5. CASE i.kind = "token.create"
  <2> DEFINE v == [actorId |-> i.actorId, sceneId |-> i.sceneId,
                   position |-> i.position, hidden |-> i.hidden, data |-> i.data]
  <2>1. Mutate(st, i) = SetToken(st, i.tokenId, v)
    BY <1>5 DEF Mutate, CreateToken, SetToken
  <2>2. /\ v # None
        /\ v.sceneId = i.sceneId /\ v.actorId = i.actorId /\ v.position = i.position
    BY <1>5, EntityAssumption DEF Token
  <2> HIDE DEF v
  <2>3. QED
    BY <1>5, <2>1, <2>2 DEF SetToken, State
<1>6. CASE i.kind = "token.delete"
  BY <1>6 DEF Mutate, DeleteToken, State
<1>7. QED
  BY <1>2, <1>3, <1>4, <1>5, <1>6

LEMMA OtherIntent ==
  ASSUME NEW st \in State, NEW i \in Intent,
         i.kind \notin {"token.move", "token.create", "token.delete",
                        "token.linkToActor", "token.replaceData"}
  PROVE  /\ Mutate(st, i).tokens = st.tokens
         /\ Mutate(st, i).activeSceneId =
              IF i.kind = "scene.setActive" THEN i.sceneId
              ELSE IF i.kind = "scene.delete" /\ st.activeSceneId = i.sceneId THEN None
              ELSE st.activeSceneId
<1> USE RequestFields DEF Intent, State
<1>1. CASE i.kind = "actor.create"
  BY <1>1 DEF Mutate, CreateActor
<1>2. CASE i.kind = "actor.delete"
  BY <1>2 DEF Mutate, DeleteActor
<1>3. CASE i.kind = "actor.linkSeat"
  BY <1>3 DEF Mutate, LinkSeat
<1>4. CASE i.kind = "actor.replaceData"
  BY <1>4 DEF Mutate, ReplaceActorData
<1>5. CASE i.kind = "scene.create"
  BY <1>5 DEF Mutate, CreateScene
<1>6. CASE i.kind = "scene.delete"
  BY <1>6 DEF Mutate, DeleteScene
<1>7. CASE i.kind = "scene.setActive"
  BY <1>7 DEF Mutate, ActivateScene
<1>8. CASE i.kind = "scene.replaceData"
  BY <1>8 DEF Mutate, ReplaceSceneData
<1>9. CASE i.kind \in {"chat.send", "dice.roll"}
  BY <1>9 DEF Mutate
<1>10. QED
  BY <1>1, <1>2, <1>3, <1>4, <1>5, <1>6, <1>7, <1>8, <1>9 DEF Request

\* The event an intent leaves has its kind, and all of its fields but the
\* data, the permissions and the hiding of what it creates.
LEMMA EventFields ==
  ASSUME NEW i \in Intent
  PROVE  LET e == StoredEvent(i) IN
           /\ e \in Intent /\ e.kind = i.kind
           /\ i.kind \notin {"token.create", "actor.create", "scene.create"} => e = i
           /\ i.kind = "token.create" =>
                /\ e.tokenId = i.tokenId /\ e.actorId = i.actorId
                /\ e.sceneId = i.sceneId /\ e.position = i.position
           /\ i.kind = "actor.create" =>
                /\ e.actorId = i.actorId
                /\ e.seatPermissions = [s \in Seats |-> "none"]
<1>1. StoredEvent(i) \in Intent
  BY StoredEventType
<1>2. CASE i.kind = "token.create"
  BY <1>1, <1>2 DEF StoredEvent, Intent, Request
<1>3. CASE i.kind = "actor.create"
  BY <1>1, <1>3 DEF StoredEvent, Intent, Request
<1>4. CASE i.kind \notin {"token.create", "actor.create"}
  BY <1>1, <1>4 DEF StoredEvent
<1>5. QED
  BY <1>2, <1>3, <1>4

\* An event keeps the mirror in step with the board its intent changes.
LEMMA EventAgrees ==
  ASSUME NEW mr \in State, NEW st \in State, NEW i \in Intent, NEW scene,
         NEW pd \in [TokenIds -> Positions \cup {None}],
         \A t \in TokenIds : pd[t] # None => TokenExists(mr, t),
         MakesNew(st, i), Agrees(mr, pd, st, scene)
  PROVE  LET e == StoredEvent(i)
             settled == [t \in TokenIds |-> IF Settles(e, t) THEN None ELSE pd[t]]
         IN  Agrees(ApplyEvent(mr, e), settled, Mutate(st, i), scene)
<1> DEFINE e == StoredEvent(i)
           settled == [t \in TokenIds |-> IF Settles(e, t) THEN None ELSE pd[t]]
           mr2 == ApplyEvent(mr, e)
           st2 == Mutate(st, i)
<1>1. e \in Intent /\ e.kind = i.kind
  BY EventFields
<1>2. CASE i.kind \in {"token.move", "token.create", "token.delete",
                       "token.linkToActor", "token.replaceData"}
  <2> DEFINE k == i.tokenId
  <2>1. e.tokenId = k /\ k \in TokenIds
    BY <1>2, EventFields, RequestFields DEF Intent
  <2>2. settled = [t \in TokenIds |->
                     IF i.kind \in {"token.move", "token.delete"} /\ t = k
                     THEN None ELSE pd[t]]
    BY <1>1, <2>1 DEF Settles
  <2>3. \A t \in TokenIds : t # k => settled[t] = pd[t]
    BY <2>2
  <2> DEFINE Confirm(m, q) == IF q[k] = None THEN m.tokens[k].position ELSE q[k]
  \* What OneToken asks of token k.
  <2>4. SUFFICES
          /\ mr2.activeSceneId = mr.activeSceneId
          /\ \A t \in TokenIds : t # k => mr2.tokens[t] = mr.tokens[t]
          /\ TokenExists(mr2, k) =>
               /\ TokenExists(st2, k)
               /\ mr2.tokens[k].actorId = st2.tokens[k].actorId
               /\ mr2.tokens[k].sceneId = st2.tokens[k].sceneId
               /\ Confirm(mr2, settled) = st2.tokens[k].position
          /\ TokenExists(st2, k) /\ st2.tokens[k].sceneId = scene /\ Visible(st2.tokens[k])
               => TokenExists(mr2, k)
    <3>1. /\ st2.activeSceneId = st.activeSceneId
          /\ \A t \in TokenIds : t # k => st2.tokens[t] = st.tokens[t]
      BY <1>2, TokenIntent
    <3> HIDE DEF mr2, st2, settled, e, k
    <3>2. Agrees(mr2, settled, st2, scene)
      BY <2>3, <2>4, <3>1, OneToken
    <3>3. QED
      BY <3>2 DEF mr2, st2, settled, e
  \* Token k in the mirror and on the board, as it was.
  <2>5. /\ TokenExists(mr, k) =>
             /\ TokenExists(st, k)
             /\ mr.tokens[k].actorId = st.tokens[k].actorId
             /\ mr.tokens[k].sceneId = st.tokens[k].sceneId
             /\ Confirm(mr, pd) = st.tokens[k].position
        /\ TokenExists(st, k) /\ st.tokens[k].sceneId = scene /\ Visible(st.tokens[k])
             => TokenExists(mr, k)
    BY <2>1 DEF Agrees
  <2>6. /\ i.kind = "token.delete" => st2.tokens[k] = None
        /\ i.kind = "token.create" =>
             /\ st2.tokens[k] # None /\ st2.tokens[k].actorId = i.actorId
             /\ st2.tokens[k].sceneId = i.sceneId /\ st2.tokens[k].position = i.position
        /\ i.kind \notin {"token.create", "token.delete"} =>
             /\ st2.tokens[k] = None <=> st.tokens[k] = None
             /\ st.tokens[k] # None =>
                  /\ st2.tokens[k].sceneId = st.tokens[k].sceneId
                  /\ st2.tokens[k].actorId = IF i.kind = "token.linkToActor"
                                             THEN i.actorId ELSE st.tokens[k].actorId
                  /\ st2.tokens[k].position = IF i.kind = "token.move"
                                              THEN i.position ELSE st.tokens[k].position
                  /\ Visible(st2.tokens[k]) <=> Visible(st.tokens[k])
    BY <1>2, TokenIntent
  <2>7. CASE i.kind = "token.replaceData"
    <3>1. mr2 = mr
      BY <1>1, <2>7 DEF ApplyEvent, Unhandled
    <3>2. settled = pd
      BY <2>2, <2>7
    <3> HIDE DEF mr2, st2, settled, e, k
    <3>3. QED
      BY <2>5, <2>6, <2>7, <3>1, <3>2 DEF TokenExists
  <2>8. CASE i.kind # "token.replaceData"
    <3>1. mr2 = Mutate(mr, e)
      BY <1>1, <1>2, <2>8 DEF ApplyEvent, Unhandled
    <3>2. /\ mr2.activeSceneId = mr.activeSceneId
          /\ \A t \in TokenIds : t # k => mr2.tokens[t] = mr.tokens[t]
          /\ i.kind = "token.delete" => mr2.tokens[k] = None
          /\ i.kind = "token.create" =>
               /\ mr2.tokens[k] # None /\ mr2.tokens[k].actorId = e.actorId
               /\ mr2.tokens[k].sceneId = e.sceneId /\ mr2.tokens[k].position = e.position
          /\ i.kind \notin {"token.create", "token.delete"} =>
               /\ mr2.tokens[k] = None <=> mr.tokens[k] = None
               /\ mr.tokens[k] # None =>
                    /\ mr2.tokens[k].sceneId = mr.tokens[k].sceneId
                    /\ mr2.tokens[k].actorId = IF i.kind = "token.linkToActor"
                                               THEN e.actorId ELSE mr.tokens[k].actorId
                    /\ mr2.tokens[k].position = IF i.kind = "token.move"
                                                THEN e.position ELSE mr.tokens[k].position
      <4>1. e.kind \in {"token.move", "token.create", "token.delete",
                        "token.linkToActor", "token.replaceData"}
        BY <1>1, <1>2
      <4> HIDE DEF e, mr2, k
      <4>2. QED
        BY <1>1, <2>1, <3>1, <4>1, TokenIntent, SMTT(20)
    <3>3. CASE i.kind = "token.create"
      <4>1. settled[k] = None
        BY <2>1, <2>2, <2>5, <3>3 DEF MakesNew, TokenExists
      <4>2. /\ e.actorId = i.actorId
            /\ e.sceneId = i.sceneId /\ e.position = i.position
        BY <3>3, EventFields
      <4> HIDE DEF mr2, st2, settled, e, k
      <4>3. QED
        BY <2>6, <3>2, <3>3, <4>1, <4>2 DEF TokenExists
    <3>4. CASE i.kind # "token.create"
      <4>1. e = i
        BY <1>2, <3>4, EventFields
      <4>2. /\ i.kind \in {"token.move", "token.delete"} => settled[k] = None
            /\ i.kind = "token.linkToActor" => settled[k] = pd[k]
        BY <2>1, <2>2
      <4> HIDE DEF mr2, st2, settled, e, k
      <4>3. QED
        BY <1>2, <2>5, <2>6, <2>8, <3>2, <3>4, <4>1, <4>2 DEF TokenExists
    <3>5. QED
      BY <3>3, <3>4
  <2>9. QED
    BY <2>7, <2>8
<1>3. CASE i.kind \notin {"token.move", "token.create", "token.delete",
                          "token.linkToActor", "token.replaceData"}
  <2>1. settled = pd
    BY <1>1, <1>3 DEF Settles
  <2>2. mr2.tokens = mr.tokens /\ st2.tokens = st.tokens
    BY <1>1, <1>3, OtherIntent DEF ApplyEvent
  <2>3. i.kind = "scene.setActive" \/ i.kind = "scene.delete" => e = i
    BY EventFields
  <2>4. mr2.activeSceneId = st2.activeSceneId
    BY <1>1, <1>3, <2>3, OtherIntent DEF ApplyEvent, Unhandled, Agrees
  <2> HIDE DEF mr2, st2, settled, e
  <2>5. Agrees(mr2, settled, st2, scene)
    BY <2>1, <2>2, <2>4 DEF Agrees, TokenExists
  <2>6. QED
    BY <2>5 DEF mr2, st2, settled, e
<1>4. QED
  BY <1>2, <1>3

\* What intents do to one actor.
LEMMA ActorIntent ==
  ASSUME NEW st \in State, NEW i \in Intent, NEW a \in ActorIds
  PROVE  LET old == st.actors[a]
             new == Mutate(st, i).actors[a]
             hit == "actorId" \in DOMAIN i /\ i.actorId = a
         IN  /\ hit /\ i.kind = "actor.create" =>
                  new # None /\ new.seatPermissions = i.seatPermissions
             /\ hit /\ i.kind = "actor.delete" => new = None
             /\ hit /\ i.kind = "actor.linkSeat" =>
                  /\ new = None <=> old = None
                  /\ old # None =>
                       new.seatPermissions =
                         [old.seatPermissions EXCEPT ![i.seatId] = i.permission]
             /\ ~hit \/ i.kind \notin {"actor.create", "actor.delete", "actor.linkSeat"} =>
                  /\ new = None <=> old = None
                  /\ old # None => new.seatPermissions = old.seatPermissions
<1> USE RequestFields DEF Intent
<1> DEFINE old == st.actors[a]
<1>1. old \in Actor \cup {None}
  BY DEF State
<1>2. CASE i.kind = "actor.create"
  <2> DEFINE v == [seatPermissions |-> i.seatPermissions, data |-> i.data]
  <2>1. Mutate(st, i).actors = [st.actors EXCEPT ![i.actorId] = v]
    BY <1>2 DEF Mutate, CreateActor, State
  <2>2. v # None /\ v.seatPermissions = i.seatPermissions
    BY <1>2, EntityAssumption DEF Actor
  <2>3. i.actorId \in ActorIds /\ "actorId" \in DOMAIN i
    BY <1>2 DEF Request
  <2> HIDE DEF v
  <2>4. QED
    BY <1>2, <2>1, <2>2, <2>3 DEF State
<1>3. CASE i.kind = "actor.delete"
  <2>1. Mutate(st, i).actors = [st.actors EXCEPT ![i.actorId] = None]
    BY <1>3 DEF Mutate, DeleteActor, State
  <2>2. i.actorId \in ActorIds /\ "actorId" \in DOMAIN i
    BY <1>3 DEF Request
  <2>3. QED
    BY <1>3, <2>1, <2>2 DEF State
<1>4. CASE i.kind = "actor.linkSeat"
  <2> DEFINE w == st.actors[i.actorId]
             v == IF w = None THEN None
                  ELSE [w EXCEPT !.seatPermissions[i.seatId] = i.permission]
  <2>1. Mutate(st, i).actors = [st.actors EXCEPT ![i.actorId] = v]
    BY <1>4 DEF Mutate, LinkSeat, State
  <2>2. i.actorId \in ActorIds /\ "actorId" \in DOMAIN i /\ i.seatId \in Seats
        /\ i.permission \in Permissions
    BY <1>4 DEF Request, Permissions
  <2>3. w \in Actor \cup {None}
    BY <2>2 DEF State
  <2>4. /\ v = None <=> w = None
        /\ w # None => v.seatPermissions =
                          [w.seatPermissions EXCEPT ![i.seatId] = i.permission]
    BY <2>2, <2>3, EntityAssumption DEF Actor
  <2> HIDE DEF v
  <2>5. QED
    BY <1>4, <2>1, <2>2, <2>4 DEF State
<1>5. CASE i.kind = "actor.replaceData"
  <2> DEFINE w == st.actors[i.actorId]
             v == IF w = None THEN None ELSE [w EXCEPT !.data = i.data]
  <2>1. Mutate(st, i).actors = [st.actors EXCEPT ![i.actorId] = v]
    BY <1>5 DEF Mutate, ReplaceActorData, State
  <2>2. i.actorId \in ActorIds /\ i.data \in Data
    BY <1>5 DEF Request
  <2>3. w \in Actor \cup {None}
    BY <2>2 DEF State
  <2>4. /\ v = None <=> w = None
        /\ w # None => v.seatPermissions = w.seatPermissions
    BY <2>2, <2>3, EntityAssumption DEF Actor
  <2> HIDE DEF v
  <2>5. QED
    BY <1>5, <2>1, <2>2, <2>4 DEF State
<1>6. CASE i.kind \in {"token.move", "token.create", "token.delete",
                       "token.linkToActor", "token.replaceData"}
  BY <1>6, TokenIntent
<1>7. CASE i.kind \in {"scene.create", "scene.delete", "scene.setActive",
                       "scene.replaceData", "chat.send", "dice.roll"}
  <2>1. Mutate(st, i).actors = st.actors
    BY <1>7 DEF Mutate, CreateScene, DeleteScene, ActivateScene, ReplaceSceneData, State
  <2>2. QED
    BY <1>7, <2>1
<1>8. QED
  BY <1>2, <1>3, <1>4, <1>5, <1>6, <1>7 DEF Request

\* An event gives the mirror no permission the board does not have.
LEMMA EventPermits ==
  ASSUME NEW mr \in State, NEW st \in State, NEW i \in Intent, Permits(mr, st)
  PROVE  Permits(ApplyEvent(mr, StoredEvent(i)), Mutate(st, i))
<1> DEFINE e == StoredEvent(i)
           mr2 == ApplyEvent(mr, e)
           st2 == Mutate(st, i)
<1>1. e \in Intent /\ e.kind = i.kind
  BY EventFields
<1>2. SUFFICES ASSUME NEW a \in ActorIds, mr2.actors[a] # None
               PROVE  /\ st2.actors[a] # None
                      /\ mr2.actors[a].seatPermissions[Me]
                           \in {"none", st2.actors[a].seatPermissions[Me]}
  BY DEF Permits, ActorExists
<1>3. mr.actors[a] # None =>
        /\ st.actors[a] # None
        /\ mr.actors[a].seatPermissions[Me] \in {"none", st.actors[a].seatPermissions[Me]}
  BY DEF Permits, ActorExists
<1>4. CASE i.kind = "actor.create"
  <2>1. /\ e.actorId = i.actorId /\ e.seatPermissions[Me] = "none"
        /\ "actorId" \in DOMAIN i /\ "actorId" \in DOMAIN e
    BY <1>1, <1>4, EventFields, RequestFields, MirrorAssumption DEF Intent, Request
  <2>2. mr2 = Mutate(mr, e)
    BY <1>1, <1>4 DEF ApplyEvent, Unhandled
  <2> HIDE DEF mr2, st2, e
  <2>3. mr2 = Mutate(mr, e) /\ st2 = Mutate(st, i)
    BY <2>2 DEF st2
  <2>4. CASE i.actorId = a
    <3>1. mr2.actors[a].seatPermissions = e.seatPermissions
      <4>1. /\ "actorId" \in DOMAIN e /\ e.actorId = a
            /\ e \in Intent /\ e.kind = "actor.create"
        BY <1>1, <1>4, <2>1, <2>4
      <4>2. Mutate(mr, e).actors[a].seatPermissions = e.seatPermissions
        BY <4>1, ActorIntent
      <4>3. QED
        BY <2>3, <4>2
    <3>2. st2.actors[a] # None
      BY <1>1, <1>4, <2>1, <2>3, <2>4, ActorIntent
    <3>3. QED
      BY <2>1, <3>1, <3>2
  <2>5. CASE i.actorId # a
    <3>1. /\ mr2.actors[a] = None <=> mr.actors[a] = None
          /\ mr.actors[a] # None => mr2.actors[a].seatPermissions = mr.actors[a].seatPermissions
      BY <1>1, <1>4, <2>1, <2>3, <2>5, ActorIntent
    <3>2. /\ st2.actors[a] = None <=> st.actors[a] = None
          /\ st.actors[a] # None => st2.actors[a].seatPermissions = st.actors[a].seatPermissions
      BY <1>1, <1>4, <2>1, <2>3, <2>5, ActorIntent
    <3>3. QED
      BY <1>2, <1>3, <3>1, <3>2
  <2>6. QED
    BY <2>4, <2>5
<1>5. CASE i.kind \in Unhandled
  <2>1. mr2 = mr
    BY <1>1, <1>5 DEF ApplyEvent
  <2>2. /\ st2.actors[a] = None <=> st.actors[a] = None
        /\ st.actors[a] # None => st2.actors[a].seatPermissions = st.actors[a].seatPermissions
    BY <1>5, ActorIntent, ZenonT(30) DEF Unhandled
  <2> HIDE DEF mr2, st2
  <2>3. QED
    BY <1>2, <1>3, <2>1, <2>2
<1>6. CASE i.kind # "actor.create" /\ i.kind \notin Unhandled
  <2>1. mr2 = Mutate(mr, e)
    BY <1>1, <1>6 DEF ApplyEvent
  <2>2. i.kind \in {"token.create", "scene.create"} \/ e = i
    BY <1>6, EventFields
  <2> HIDE DEF mr2, e
  <2>3. CASE i.kind \in {"token.create", "scene.create"}
    <3>1. /\ mr2.actors[a] = None <=> mr.actors[a] = None
          /\ mr.actors[a] # None => mr2.actors[a].seatPermissions = mr.actors[a].seatPermissions
      <4>1. e \in Intent /\ e.kind \notin {"actor.create", "actor.delete", "actor.linkSeat"}
        BY <1>1, <2>3
      <4>2. QED
        BY <2>1, <4>1, ActorIntent
    <3>2. /\ st2.actors[a] = None <=> st.actors[a] = None
          /\ st.actors[a] # None => st2.actors[a].seatPermissions = st.actors[a].seatPermissions
      BY <2>3, ActorIntent, ZenonT(30)
    <3> HIDE DEF st2
    <3>3. QED
      BY <1>2, <1>3, <3>1, <3>2
  <2>4. CASE e = i
    <3> DEFINE hit == "actorId" \in DOMAIN i /\ i.actorId = a
    <3>1. CASE hit /\ i.kind = "actor.delete"
      <4>1. mr2.actors[a] = None
        BY <2>1, <2>4, <3>1, ActorIntent
      <4>2. QED
        BY <1>2, <4>1
    <3>2. CASE hit /\ i.kind = "actor.linkSeat"
      <4>1. /\ mr2.actors[a] = None <=> mr.actors[a] = None
            /\ mr.actors[a] # None =>
                 mr2.actors[a].seatPermissions =
                   [mr.actors[a].seatPermissions EXCEPT ![i.seatId] = i.permission]
        BY <2>1, <2>4, <3>2, ActorIntent
      <4>2. /\ st2.actors[a] = None <=> st.actors[a] = None
            /\ st.actors[a] # None =>
                 st2.actors[a].seatPermissions =
                   [st.actors[a].seatPermissions EXCEPT ![i.seatId] = i.permission]
        BY <3>2, ActorIntent
      <4>3. /\ mr.actors[a] # None => mr.actors[a].seatPermissions \in [Seats -> Permissions]
            /\ st.actors[a] # None => st.actors[a].seatPermissions \in [Seats -> Permissions]
        BY DEF State, Actor
      <4> HIDE DEF st2
      <4>4. QED
        BY <1>2, <1>3, <4>1, <4>2, <4>3, MirrorAssumption
    <3>3. CASE ~hit \/ i.kind \notin {"actor.delete", "actor.linkSeat"}
      <4>1. /\ mr2.actors[a] = None <=> mr.actors[a] = None
            /\ mr.actors[a] # None => mr2.actors[a].seatPermissions = mr.actors[a].seatPermissions
        BY <1>6, <2>1, <2>4, <3>3, ActorIntent
      <4>2. /\ st2.actors[a] = None <=> st.actors[a] = None
            /\ st.actors[a] # None => st2.actors[a].seatPermissions = st.actors[a].seatPermissions
        BY <1>6, <3>3, ActorIntent
      <4> HIDE DEF st2
      <4>3. QED
        BY <1>2, <1>3, <4>1, <4>2
    <3>4. QED
      BY <3>1, <3>2, <3>3
  <2>5. QED
    BY <2>2, <2>3, <2>4
<1>7. QED
  BY <1>4, <1>5, <1>6

\* Going back to the confirmed positions leaves no move pending.
LEMMA RevertAgrees ==
  ASSUME TypeOK, RevertMoves, NEW st, NEW scene, Agrees(mirror, pending, st, scene)
  PROVE  Agrees(mirror', pending', st, scene)
<1>1. /\ mirror'.activeSceneId = mirror.activeSceneId
      /\ pending' = NoPending
      /\ \A t \in TokenIds :
           mirror'.tokens[t] =
             IF mirror.tokens[t] # None /\ pending[t] # None
             THEN [mirror.tokens[t] EXCEPT !.position = pending[t]] ELSE mirror.tokens[t]
  BY DEF RevertMoves, TypeOK, State
<1>2. ASSUME NEW t \in TokenIds
      PROVE  /\ TokenExists(mirror', t) <=> TokenExists(mirror, t)
             /\ TokenExists(mirror, t) =>
                  /\ mirror'.tokens[t].actorId = mirror.tokens[t].actorId
                  /\ mirror'.tokens[t].sceneId = mirror.tokens[t].sceneId
                  /\ mirror'.tokens[t].position =
                       IF pending[t] = None THEN mirror.tokens[t].position ELSE pending[t]
  <2>1. mirror.tokens[t] \in Token \cup {None} /\ pending[t] \in Positions \cup {None}
    BY DEF TypeOK, State
  <2>2. QED
    BY <1>1, <2>1, EntityAssumption DEF Token, TokenExists
<1>3. \A t \in TokenIds : pending'[t] = None
  BY <1>1 DEF NoPending
<1>4. QED
  BY <1>1, <1>2, <1>3 DEF Agrees

\* A move ahead remembers the confirmed position of its token.
LEMMA MoveAheadAgrees ==
  ASSUME TypeOK, NEW u \in TokenIds, NEW p \in Positions,
         TokenExists(mirror, u), MoveAhead(u, p),
         NEW st, NEW scene, Agrees(mirror, pending, st, scene)
  PROVE  Agrees(mirror', pending', st, scene)
<1>1. mirror.tokens[u] \in Token
  BY DEF TokenExists, TypeOK, State
<1>2. /\ mirror'.activeSceneId = mirror.activeSceneId
      /\ \A t \in TokenIds : t # u => mirror'.tokens[t] = mirror.tokens[t]
      /\ mirror'.tokens[u] = [mirror.tokens[u] EXCEPT !.position = p]
  BY DEF MoveAhead, PutToken, TypeOK, State
<1>3. /\ \A t \in TokenIds : t # u => pending'[t] = pending[t]
      /\ pending'[u] = IF pending[u] = None THEN mirror.tokens[u].position ELSE pending[u]
  BY DEF MoveAhead, Remember, TypeOK
<1>4. /\ mirror'.tokens[u].actorId = mirror.tokens[u].actorId
      /\ mirror'.tokens[u].sceneId = mirror.tokens[u].sceneId
      /\ mirror.tokens[u].position \in Positions
      /\ mirror'.tokens[u] # None
  BY <1>1, <1>2, EntityAssumption DEF Token
<1>5. pending'[u] # None
  BY <1>3, <1>4, MirrorAssumption
<1>6. /\ TokenExists(mirror', u)
      /\ TokenExists(st, u)
      /\ mirror'.tokens[u].actorId = st.tokens[u].actorId
      /\ mirror'.tokens[u].sceneId = st.tokens[u].sceneId
      /\ pending'[u] = st.tokens[u].position
  BY <1>1, <1>3, <1>4 DEF Agrees, TokenExists
<1>7. ASSUME NEW t \in TokenIds
      PROVE  /\ TokenExists(mirror', t) =>
                  /\ TokenExists(st, t)
                  /\ mirror'.tokens[t].actorId = st.tokens[t].actorId
                  /\ mirror'.tokens[t].sceneId = st.tokens[t].sceneId
                  /\ (IF pending'[t] = None THEN mirror'.tokens[t].position
                                            ELSE pending'[t]) = st.tokens[t].position
             /\ TokenExists(st, t) /\ st.tokens[t].sceneId = scene /\ Visible(st.tokens[t])
                  => TokenExists(mirror', t)
  <2>1. CASE t = u
    BY <1>5, <1>6, <2>1
  <2>2. CASE t # u
    <3>1. mirror'.tokens[t] = mirror.tokens[t] /\ pending'[t] = pending[t]
      BY <1>2, <1>3, <2>2
    <3>2. QED
      BY <3>1 DEF Agrees, TokenExists
  <2>3. QED
    BY <2>1, <2>2
<1>8. mirror'.activeSceneId = st.activeSceneId
  BY <1>2 DEF Agrees
<1>9. QED
  BY <1>7, <1>8 DEF Agrees

\* Steps of the system, one part of the invariant at a time

\* The engine's count and its board are numbers and states.
LEMMA BoardType ==
  ASSUME TypeOK
  PROVE  /\ seq \in Nat /\ Len(history) = seq + 1
         /\ state \in State
         /\ \A n \in 0..seq : BoardAt(n) \in State
<1>1. Len(history) \in Nat /\ Len(history) > 0
  BY DEF TypeOK
<1>2. \A n \in 1..Len(history) : history[n] \in State
  BY DEF TypeOK
<1>3. seq \in Nat /\ Len(history) = seq + 1
  BY <1>1 DEF seq
<1>4. \A n \in 0..seq : BoardAt(n) \in State
  BY <1>2, <1>3 DEF BoardAt
<1>5. QED
  BY <1>3, <1>4 DEF state

LEMMA DownFields ==
  ASSUME NEW m \in DownMessage
  PROVE  /\ m.seq \in Nat
         /\ m.kind \in {"welcome", "error", "redacted", "view", "event"}
         /\ m.kind = "view" => m.view \in State
         /\ m.kind = "event" => m.event \in Intent
BY DEF DownMessage

LEMMA UpFields ==
  ASSUME NEW m \in UpMessage
  PROVE  /\ m.kind \in {"view.request", "dispatch"}
         /\ m.kind = "dispatch" => m.request \in Request
BY DEF UpMessage

\* What applying an event, a view or a revert leaves is a board.
LEMMA ApplyType ==
  ASSUME NEW mr \in State, NEW e \in Intent
  PROVE  ApplyEvent(mr, e) \in State
BY MutateType DEF ApplyEvent

LEMMA StepType ==
  ASSUME TypeOK, [Next]_vars
  PROVE  TypeOK'
<1> USE DEF engineVars, wireVars, clientVars
<1>0. /\ [kind |-> "view.request"] \in UpMessage
      /\ Ask /\ up \in Seq(UpMessage) => up' \in Seq(UpMessage)
      /\ \A k \in {"welcome", "view", "event", "redacted", "error"} :
           Received(k) => /\ Head(down) \in DownMessage
                          /\ Tail(down) \in Seq(DownMessage)
  <2>1. [kind |-> "view.request"] \in UpMessage
    BY DEF UpMessage
  <2>2. Ask /\ up \in Seq(UpMessage) => up' \in Seq(UpMessage)
    BY <2>1 DEF Ask
  <2>3. \A k : Received(k) => /\ Head(down) \in DownMessage
                              /\ Tail(down) \in Seq(DownMessage)
    <3> SUFFICES ASSUME down # <<>>
                 PROVE  Head(down) \in DownMessage /\ Tail(down) \in Seq(DownMessage)
      BY DEF Received
    <3>1. down \in Seq(DownMessage)
      BY DEF TypeOK
    <3> HIDE DEF DownMessage
    <3>2. QED
      BY <3>1
  <2>4. QED
    BY <2>1, <2>2, <2>3
<1>1. CASE LoseEarly \/ Welcomed \/ Open \/ Drop
  <2>1. CASE LoseEarly
    BY <2>1 DEF TypeOK, LoseEarly
  <2>2. CASE Welcomed
    BY <1>0, <2>2 DEF TypeOK, Welcomed
  <2>3. CASE Open
    BY <1>0, <2>3 DEF TypeOK, Open
  <2>4. CASE Drop
    <3>1. /\ UNCHANGED <<history, todo, cached, mirror, pending, lastEventSeq, viewed, held, moves>>
          /\ drops' \in Nat
      BY <2>4 DEF TypeOK, Drop, Disconnect
    <3>2. sock' = "closed" /\ up' = <<>> /\ down' = <<>> /\ synced' = FALSE
      BY <2>4 DEF Drop, Disconnect
    <3>3. /\ sock' \in {"closed", "handshake", "open"} /\ synced' \in BOOLEAN
          /\ up' \in Seq(UpMessage) /\ down' \in Seq(DownMessage)
      <4>1. sock' \in {"closed", "handshake", "open"}
        BY <3>2
      <4>2. synced' \in BOOLEAN
        BY <3>2
      <4>3. up' \in Seq(UpMessage)
        BY <3>2
      <4>4. down' \in Seq(DownMessage)
        BY <3>2
      <4>5. QED
        BY <4>1, <4>2, <4>3, <4>4
    <3>4. QED
      BY <3>1, <3>3 DEF TypeOK
  <2>5. QED
    BY <1>1, <2>1, <2>2, <2>3, <2>4
<1>2. /\ ViewMessage \in DownMessage
      /\ Plain("welcome") \in DownMessage /\ Plain("error") \in DownMessage
  BY BoardType, ViewType DEF ViewMessage, Plain, DownMessage
<1>3. CASE Accept
  BY <1>2, <1>3 DEF TypeOK, Accept
<1>4. CASE ServeView
  BY <1>2, <1>4 DEF TypeOK, ServeView
<1>5. CASE ServeDispatch
  <2>1. up[1] \in UpMessage /\ Head(up) = up[1]
    BY <1>5 DEF ServeDispatch, TypeOK
  <2>2. up[1].request \in Request
    BY <1>5, <2>1, UpFields DEF ServeDispatch
  <2>3. todo' \in Seq(Intent)
    <3>1. CASE Serve(OwnArgs, up[1].request)
      BY <2>2, <3>1, IntentsType, BoardType DEF Serve
    <3>2. CASE UNCHANGED todo
      BY <3>2 DEF TypeOK
    <3>3. QED
      <4>1. Serve(OwnArgs, Head(up).request) \/ UNCHANGED todo
        BY <1>5 DEF ServeDispatch
      <4>2. QED
        BY <2>1, <3>1, <3>2, <4>1
  <2>4. down' \in Seq(DownMessage)
    <3>1. down' = down \/ down' = Append(down, Plain("error"))
      BY <1>5 DEF ServeDispatch
    <3>2. down \in Seq(DownMessage)
      BY DEF TypeOK
    <3>3. QED
      BY <1>2, <3>1, <3>2
  <2>5. up' \in Seq(UpMessage)
    BY <1>5 DEF ServeDispatch, TypeOK
  <2>6. QED
    BY <1>5, <2>3, <2>4, <2>5 DEF ServeDispatch, TypeOK
<1>6. CASE ServeOther
  <2>1. PICK input \in Inputs : Serve(ResolverArgs(input), input.request)
    BY <1>6 DEF ServeOther
  <2>2. input.request \in Request
    BY MirrorAssumption DEF Input
  <2>3. todo' \in Seq(Intent)
    BY <2>1, <2>2, IntentsType, BoardType DEF Serve
  <2>4. QED
    BY <1>6, <2>3 DEF ServeOther, TypeOK
<1>7. CASE Emit
  <2>1. Head(todo) \in Intent /\ Tail(todo) \in Seq(Intent)
    BY <1>7 DEF Emit, Free, TypeOK
  <2>2. Mutate(state, Head(todo)) \in State
    BY <2>1, BoardType, MutateType
  <2>3. EventMessage(Head(todo)) \in DownMessage
    BY <2>1, BoardType, StoredEventType DEF EventMessage, DownMessage
  <2>4. history' \in Seq(State) /\ history' # <<>>
    BY <1>7, <2>2, SMTT(20) DEF Emit, TypeOK
  <2>5. down' \in Seq(DownMessage)
    BY <1>7, <2>3 DEF Emit, TypeOK
  <2>6. QED
    BY <1>7, <2>1, <2>4, <2>5 DEF Emit, TypeOK
<1>8. CASE Viewed
  <2>1. Head(down) \in DownMessage
    BY <1>8 DEF Viewed, Received, TypeOK
  <2>2. Head(down).view \in State /\ Head(down).seq \in Nat
    BY <1>8, <2>1, DownFields DEF Viewed, Received
  <2>3. Head(down).view.activeSceneId \in SceneIds \cup {None}
    BY <2>2 DEF State
  <2>4. NoPending \in [TokenIds -> Positions \cup {None}]
    BY DEF NoPending
  <2>5. QED
    BY <1>8, <2>2, <2>3, <2>4 DEF Viewed, TakeView, Received, TypeOK
<1>9. CASE EventReceived
  <2>1. Head(down) \in DownMessage /\ Tail(down) \in Seq(DownMessage)
    BY <1>9 DEF EventReceived, Received, TypeOK
  <2>2. Head(down).event \in Intent /\ Head(down).seq \in Nat
    BY <1>9, <2>1, DownFields DEF EventReceived, Received
  <2>3. ApplyEvent(mirror, Head(down).event) \in State
    BY <2>2, ApplyType DEF TypeOK
  <2>4. CASE Gap(Head(down).seq)
    BY <1>0, <1>9, <2>1, <2>4 DEF EventReceived, Resync, TypeOK
  <2>5. CASE ~Gap(Head(down).seq)
    <3>1. /\ pending' \in [TokenIds -> Positions \cup {None}]
          /\ mirror' = ApplyEvent(mirror, Head(down).event)
          /\ lastEventSeq' = Head(down).seq /\ up' = up /\ down' = Tail(down)
      BY <1>9, <2>5 DEF EventReceived, TypeOK
    <3>2. QED
      BY <1>9, <2>1, <2>2, <2>3, <3>1 DEF EventReceived, TypeOK
  <2>6. QED
    BY <2>4, <2>5
<1>10. CASE RedactedReceived
  <2>1. Head(down) \in DownMessage /\ Tail(down) \in Seq(DownMessage)
    BY <1>10 DEF RedactedReceived, Received, TypeOK
  <2>2. Head(down).seq \in Nat
    BY <2>1, DownFields
  <2>3. QED
    BY <1>0, <1>10, <2>1, <2>2 DEF RedactedReceived, Resync, TypeOK
<1>11. CASE Rejected
  <2>1. mirror' \in State
    <3>1. \A t \in TokenIds :
            mirror.tokens[t] # None /\ pending[t] # None =>
              [mirror.tokens[t] EXCEPT !.position = pending[t]] \in Token
      BY DEF TypeOK, State, Token
    <3>2. QED
      BY <1>11, <3>1 DEF Rejected, RevertMoves, TypeOK, State
  <2>2. pending' \in [TokenIds -> Positions \cup {None}] /\ down' \in Seq(DownMessage)
    BY <1>11 DEF Rejected, RevertMoves, NoPending, Received, TypeOK
  <2>3. QED
    BY <1>11, <2>1, <2>2 DEF Rejected, TypeOK
<1>12. CASE \E t \in TokenIds, p \in Positions : Release(t, p)
  <2>1. PICK t \in TokenIds, p \in Positions : Release(t, p)
    BY <1>12
  <2>2. mirror' \in State /\ pending' \in [TokenIds -> Positions \cup {None}]
    <3>1. CASE TokenExists(mirror, t)
      <4>1. mirror.tokens[t] \in Token
        BY <3>1 DEF TokenExists, TypeOK, State
      <4>2. mirror' \in State
        <5>1. mirror' = PutToken(mirror, t, p)
          BY <2>1, <3>1 DEF Release, MoveAhead
        <5>2. QED
          BY <4>1, <5>1 DEF PutToken, TypeOK, State, Token
      <4>3. pending' \in [TokenIds -> Positions \cup {None}]
        BY <2>1, <3>1, <4>1 DEF Release, MoveAhead, Remember, TypeOK, Token
      <4>4. QED
        BY <4>2, <4>3
    <3>2. CASE ~TokenExists(mirror, t)
      BY <2>1, <3>2 DEF Release, MoveAhead, TypeOK
    <3>3. QED
      BY <3>1, <3>2
  <2>3. [kind |-> "dispatch",
         request |-> [kind |-> "token.move", tokenId |-> t, position |-> p]] \in UpMessage
    BY DEF UpMessage, Request
  <2>4. up' \in Seq(UpMessage)
    BY <2>1, <2>3 DEF Release, TypeOK
  <2>5. held' \in TokenIds \cup {None}
    BY <2>1 DEF Release
  <2>6. UNCHANGED <<engineVars, sock, down, lastEventSeq, synced, viewed, moves, drops>>
    BY <2>1 DEF Release
  <2>7. QED
    BY <2>2, <2>4, <2>5, <2>6 DEF TypeOK
<1>13. CASE Reopen
  <2>1. history' \in Seq(State) /\ history' # <<>>
    <3>1. history' = [history EXCEPT ![Len(history)] = Seed]
      BY <1>13 DEF Reopen
    <3>2. history \in Seq(State) /\ Len(history) \in 1..Len(history)
      BY DEF TypeOK
    <3>3. QED
      BY <3>1, <3>2, MirrorAssumption
  <2>2. QED
    <3>1. /\ UNCHANGED <<mirror, pending, lastEventSeq, viewed, held, moves>>
          /\ drops' \in Nat
      BY <1>13 DEF TypeOK, Reopen, Disconnect
    <3>2. /\ sock' = "closed" /\ up' = <<>> /\ down' = <<>> /\ synced' = FALSE
          /\ todo' = <<>> /\ cached' = TRUE
      BY <1>13 DEF Reopen, Disconnect
    <3>3. /\ sock' \in {"closed", "handshake", "open"} /\ synced' \in BOOLEAN
          /\ up' \in Seq(UpMessage) /\ down' \in Seq(DownMessage)
          /\ todo' \in Seq(Intent) /\ cached' \in BOOLEAN
      <4>1. sock' \in {"closed", "handshake", "open"}
        BY <3>2
      <4>2. synced' \in BOOLEAN /\ cached' \in BOOLEAN
        BY <3>2, Zenon
      <4>3. up' \in Seq(UpMessage)
        BY <3>2
      <4>4. down' \in Seq(DownMessage)
        BY <3>2
      <4>5. todo' \in Seq(Intent)
        BY <3>2
      <4>6. QED
        BY <4>1, <4>2, <4>3, <4>4, <4>5
    <3>4. QED
      BY <2>1, <3>1, <3>3 DEF TypeOK
<1>14. CASE UNCHANGED vars
  BY <1>14 DEF vars, TypeOK
<1>15. CASE LetGo \/ \E t \in TokenIds : Grab(t)
  <2>1. UNCHANGED <<engineVars, wireVars, clientVars, drops>>
    BY <1>15 DEF LetGo, Grab
  <2>2. held' \in TokenIds \cup {None} /\ moves' \in Nat
    BY <1>15 DEF LetGo, Grab, TypeOK
  <2>3. QED
    BY <2>1, <2>2 DEF TypeOK
<1>16. QED
  BY <1>1, <1>3, <1>4, <1>5, <1>6, <1>7, <1>8, <1>9, <1>10, <1>11, <1>12, <1>13, <1>14, <1>15
     DEF Next, Server, Receive

\* A sequence without its first element, and with one more at its end.
LEMMA TailOf ==
  ASSUME NEW S, NEW q \in Seq(S), q # <<>>
  PROVE  /\ Len(q) \in Nat /\ Len(q) > 0 /\ Head(q) = q[1]
         /\ Tail(q) \in Seq(S) /\ Len(Tail(q)) = Len(q) - 1
         /\ \A i \in 1..Len(Tail(q)) : Tail(q)[i] = q[i + 1]
OBVIOUS

LEMMA AppendOf ==
  ASSUME NEW S, NEW q \in Seq(S), NEW x \in S
  PROVE  /\ Len(q) \in Nat /\ Append(q, x) \in Seq(S) /\ Len(Append(q, x)) = Len(q) + 1
         /\ Append(q, x)[Len(q) + 1] = x
         /\ \A i \in 1..Len(q) : Append(q, x)[i] = q[i]
OBVIOUS

\* An event is received over a connection that has brought a view, and it is
\* the next one.
LEMMA InTurn ==
  ASSUME TypeOK, WireShape, StampsInOrder, NEW k \in {"event", "redacted"}, Received(k)
  PROVE  synced /\ Head(down).seq = lastEventSeq + 1 /\ ~Gap(Head(down).seq)
<1>1. down \in Seq(DownMessage) /\ down # <<>> /\ sock = "open" /\ lastEventSeq \in Nat
  BY DEF TypeOK, Received
<1>2. Len(down) > 0 /\ Head(down) = down[1]
  BY <1>1, TailOf
<1>3. down[1].kind = k
  BY <1>2 DEF Received
<1>4. synced
  BY <1>1, <1>3 DEF WireShape
<1>5. down[1].seq = lastEventSeq + 1
  BY <1>2, <1>3, <1>4 DEF StampsInOrder, Advance
<1>6. QED
  BY <1>1, <1>2, <1>4, <1>5 DEF Gap

\* What a step can do to the connection: nothing, an answer to the client,
\* the greeting, a message taken by the client, or the end.  Emit is the
\* only other one.
Still ==
  /\ UNCHANGED <<history, down, synced, lastEventSeq, cached>>
  /\ sock' = sock \/ (sock # "open" /\ sock' # "open")

Sends(m) ==
  /\ sock = "open" /\ sock' = "open" /\ down' = Append(down, m)
  /\ UNCHANGED <<history, synced, lastEventSeq, cached>>

Greets ==
  /\ sock = "handshake" /\ sock' = "open"
  /\ down' = <<Plain("welcome"), ViewMessage>>
  /\ UNCHANGED <<history, synced, lastEventSeq, cached>>

Takes(m) ==
  /\ sock = "open" /\ sock' = "open"
  /\ down # <<>> /\ Head(down) = m /\ down' = Tail(down)
  /\ UNCHANGED <<history, cached>>
  /\ m.kind = "view" => synced' = TRUE
  /\ m.kind # "view" => synced' = synced
  /\ m.kind \in {"view", "event", "redacted"} => lastEventSeq' = m.seq
  /\ m.kind \notin {"view", "event", "redacted"} => lastEventSeq' = lastEventSeq

Ends ==
  /\ sock' # "open" /\ down' = <<>> /\ synced' = FALSE
  /\ lastEventSeq' = lastEventSeq
  /\ history' = history \/ Reopen

LEMMA WireSteps ==
  ASSUME TypeOK, WireShape, StampsInOrder, [Next]_vars
  PROVE  \/ Still \/ Emit \/ Greets \/ Ends
         \/ \E m \in {ViewMessage, Plain("error")} : Sends(m)
         \/ \E m \in DownMessage : Takes(m)
<1> USE DEF engineVars, wireVars, clientVars
<1>1. CASE LoseEarly \/ Open \/ ServeOther
  <2>1. /\ UNCHANGED <<history, down>>
        /\ UNCHANGED <<synced, lastEventSeq, cached>>
    BY <1>1 DEF LoseEarly, Open, ServeOther
  <2>2. sock' = sock \/ (sock # "open" /\ sock' # "open")
    BY <1>1 DEF LoseEarly, Open, ServeOther
  <2>3. QED
    BY <2>1, <2>2 DEF Still
<1>2. CASE Accept
  BY <1>2 DEF Accept, Greets
<1>3. CASE ServeView
  BY <1>3 DEF ServeView, Sends
<1>4. CASE ServeDispatch
  <2>1. down' = down \/ down' = Append(down, Plain("error"))
    BY <1>4 DEF ServeDispatch
  <2>2. /\ sock = "open" /\ sock' = sock
        /\ UNCHANGED <<history, synced, lastEventSeq, cached>>
    BY <1>4 DEF ServeDispatch
  <2>3. CASE down' = down
    BY <2>2, <2>3 DEF Still
  <2>4. CASE down' = Append(down, Plain("error"))
    BY <2>2, <2>4 DEF Sends
  <2>5. QED
    BY <2>1, <2>3, <2>4
<1>5. ASSUME NEW k, Received(k)
      PROVE  Head(down) \in DownMessage /\ Head(down).kind = k /\ down # <<>>
  BY <1>5, TailOf DEF Received, TypeOK
<1>6. CASE Welcomed
  <2>1. Takes(Head(down))
    BY <1>5, <1>6 DEF Welcomed, Received, Takes
  <2>2. QED
    BY <1>5, <1>6, <2>1 DEF Welcomed
<1>7. CASE Viewed
  <2>1. Takes(Head(down))
    BY <1>5, <1>7 DEF Viewed, TakeView, Received, Takes
  <2>2. QED
    BY <1>5, <1>7, <2>1 DEF Viewed
<1>8. CASE EventReceived
  <2>1. ~Gap(Head(down).seq)
    BY <1>8, InTurn DEF EventReceived
  <2>2. Takes(Head(down))
    BY <1>5, <1>8, <2>1 DEF EventReceived, Received, Takes
  <2>3. QED
    BY <1>5, <1>8, <2>2 DEF EventReceived
<1>9. CASE RedactedReceived
  <2>1. ~Gap(Head(down).seq)
    BY <1>9, InTurn DEF RedactedReceived
  <2>2. Takes(Head(down))
    BY <1>5, <1>9, <2>1 DEF RedactedReceived, Received, Takes
  <2>3. QED
    BY <1>5, <1>9, <2>2 DEF RedactedReceived
<1>10. CASE Rejected
  <2>1. Takes(Head(down))
    BY <1>5, <1>10 DEF Rejected, Received, Takes
  <2>2. QED
    BY <1>5, <1>10, <2>1 DEF Rejected
<1>11. CASE \/ LetGo \/ \E t \in TokenIds : Grab(t)
            \/ \E t \in TokenIds, p \in Positions : Release(t, p)
  <2>1. UNCHANGED <<history, down, synced, lastEventSeq, cached, sock>>
    BY <1>11 DEF Release, LetGo, Grab
  <2>2. QED
    BY <2>1 DEF Still
<1>12. CASE Drop \/ Reopen
  <2>1. Disconnect /\ (history' = history \/ Reopen)
    BY <1>12 DEF Drop, Reopen
  <2>2. QED
    BY <2>1 DEF Disconnect, Ends
<1>13. CASE UNCHANGED vars
  BY <1>13 DEF vars, Still
<1>14. QED
  BY <1>1, <1>2, <1>3, <1>4, <1>6, <1>7, <1>8, <1>9, <1>10, <1>11, <1>12, <1>13
     DEF Next, Server, Receive

\* What Emit does: one more board, and one more message if the socket is open.
LEMMA EmitEffect ==
  ASSUME TypeOK, Emit
  PROVE  /\ Head(todo) \in Intent /\ Tail(todo) \in Seq(Intent)
         /\ seq' = seq + 1
         /\ \A n \in 0..seq : BoardAt(n)' = BoardAt(n)
         /\ \A n : n = seq + 1 => BoardAt(n)' = Mutate(state, Head(todo))
         /\ UNCHANGED <<sock, synced, lastEventSeq, cached>>
         /\ EventMessage(Head(todo)) \in DownMessage
         /\ EventMessage(Head(todo)).seq = seq + 1
         /\ EventMessage(Head(todo)).kind \in {"event", "redacted"}
         /\ down' = IF sock = "open" THEN Append(down, EventMessage(Head(todo))) ELSE down
<1>1. todo \in Seq(Intent) /\ todo # <<>>
  BY DEF Emit, Free, TypeOK
<1>2. Head(todo) \in Intent /\ Tail(todo) \in Seq(Intent)
  BY <1>1
<1>3. /\ history \in Seq(State) /\ Mutate(state, Head(todo)) \in State
      /\ history' = Append(history, Mutate(state, Head(todo)))
  BY <1>2, BoardType, MutateType DEF TypeOK, Emit
<1>4. seq \in Nat /\ Len(history) = seq + 1
  BY BoardType
<1>5. seq' = seq + 1
  BY <1>3, <1>4, AppendOf DEF seq
<1>6. \A n \in 0..seq : BoardAt(n)' = BoardAt(n)
  <2> SUFFICES ASSUME NEW n \in 0..seq PROVE history'[n + 1] = history[n + 1]
    BY DEF BoardAt
  <2>1. n + 1 \in 1..Len(history)
    BY <1>4
  <2>2. QED
    BY <1>3, <2>1, AppendOf
<1>7. ASSUME NEW n, n = seq + 1
      PROVE  BoardAt(n)' = Mutate(state, Head(todo))
  <2>1. n + 1 = Len(history) + 1
    BY <1>4, <1>7
  <2>2. history'[n + 1] = Mutate(state, Head(todo))
    BY <1>3, <2>1, AppendOf
  <2>3. QED
    BY <2>2 DEF BoardAt
<1>8. /\ EventMessage(Head(todo)) \in DownMessage
      /\ EventMessage(Head(todo)).seq = seq + 1
      /\ EventMessage(Head(todo)).kind \in {"event", "redacted"}
  BY <1>2, <1>4, StoredEventType DEF EventMessage, DownMessage
<1>9. /\ UNCHANGED <<sock, synced, lastEventSeq, cached>>
      /\ down' = IF sock = "open" THEN Append(down, EventMessage(Head(todo))) ELSE down
  BY DEF Emit, clientVars
<1>10. QED
  BY <1>2, <1>5, <1>6, <1>7, <1>8, <1>9

LEMMA StepWire ==
  ASSUME TypeOK, WireShape, StampsInOrder, [Next]_vars
  PROVE  WireShape'
<1>1. down \in Seq(DownMessage)
  BY DEF TypeOK
<1>2. CASE Still
  BY <1>2 DEF Still, WireShape
<1>3. ASSUME NEW m \in DownMessage, sock = "open", sock' = "open",
             down' = Append(down, m), synced' = synced
      PROVE  WireShape'
  <2>1. /\ Len(down) \in Nat /\ Len(down') = Len(down) + 1
        /\ \A i \in 1..Len(down) : down'[i] = down[i]
    BY <1>1, <1>3, AppendOf
  <2>2. QED
    BY <1>3, <2>1 DEF WireShape
<1>4. CASE Emit
  <2>1. CASE sock = "open"
    BY <1>3, <1>4, <2>1, EmitEffect
  <2>2. CASE sock # "open"
    BY <1>4, <2>2, EmitEffect DEF WireShape
  <2>3. QED
    BY <2>1, <2>2
<1>5. /\ ViewMessage \in DownMessage /\ ViewMessage.kind = "view"
      /\ Plain("error") \in DownMessage
      /\ Plain("welcome") \in DownMessage /\ Plain("welcome").kind = "welcome"
  BY BoardType, ViewType DEF ViewMessage, Plain, DownMessage
<1>6. CASE Greets
  <2>1. /\ sock' = "open" /\ down' = <<Plain("welcome"), ViewMessage>>
    BY <1>6 DEF Greets
  <2>2. Len(down') = 2 /\ down'[1].kind = "welcome" /\ down'[2].kind = "view"
    BY <1>5, <2>1
  <2>3. QED
    BY <2>1, <2>2 DEF WireShape
<1>7. CASE Ends
  BY <1>7 DEF Ends, WireShape
<1>8. CASE \E m \in {ViewMessage, Plain("error")} : Sends(m)
  BY <1>3, <1>5, <1>8 DEF Sends
<1>9. CASE \E m \in DownMessage : Takes(m)
  <2>1. PICK m \in DownMessage : Takes(m)
    BY <1>9
  <2>2. /\ sock = "open" /\ sock' = "open" /\ down[1] = m /\ Len(down) \in Nat
        /\ Len(down') = Len(down) - 1 /\ \A i \in 1..Len(down') : down'[i] = down[i + 1]
    BY <1>1, <2>1, TailOf DEF Takes
  <2>3. CASE m.kind = "view"
    BY <2>1, <2>2, <2>3 DEF Takes, WireShape
  <2>4. CASE m.kind # "view"
    <3>1. synced' = synced
      BY <2>1, <2>4 DEF Takes
    <3>2. CASE synced
      BY <2>2, <3>1, <3>2 DEF WireShape
    <3>3. CASE ~synced
      <4>1. Len(down) > 1 /\ down[2].kind = "view"
        BY <2>2, <2>4, <3>3 DEF WireShape
      <4>2. Len(down') > 0 /\ down'[1].kind = "view"
        BY <2>2, <4>1
      <4>3. QED
        BY <2>2, <4>2 DEF WireShape
    <3>4. QED
      BY <3>2, <3>3
  <2>5. QED
    BY <2>3, <2>4
<1>10. QED
  BY <1>2, <1>4, <1>6, <1>7, <1>8, <1>9, WireSteps

LEMMA StepStamps ==
  ASSUME TypeOK, WireShape, StampsInOrder, [Next]_vars
  PROVE  StampsInOrder'
<1> USE BoardType
<1>1. down \in Seq(DownMessage) /\ lastEventSeq \in Nat
  BY DEF TypeOK
<1>2. CASE Still
  BY <1>2 DEF Still, StampsInOrder, seq
<1>3. ASSUME NEW m \in DownMessage, sock = "open", down' = Append(down, m),
             m.seq = seq + Advance(m), seq' = m.seq,
             synced' = synced, lastEventSeq' = lastEventSeq
      PROVE  StampsInOrder'
  <2>1. /\ Len(down) \in Nat /\ Len(down') = Len(down) + 1 /\ down'[Len(down) + 1] = m
        /\ \A i \in 1..Len(down) : down'[i] = down[i] /\ down[i].seq \in Nat
    BY <1>1, <1>3, AppendOf, DownFields
  <2>2. Advance(m) \in {0, 1} /\ seq \in Nat /\ seq <= seq'
    BY <1>3 DEF Advance
  <2>3. lastEventSeq' <= seq' /\ \A i \in 1..Len(down') : down'[i].seq <= seq'
    BY <1>1, <1>3, <2>1, <2>2 DEF StampsInOrder
  <2>4. \A i \in 1..(Len(down') - 1) : down'[i + 1].seq = down'[i].seq + Advance(down'[i + 1])
    BY <1>3, <2>1 DEF StampsInOrder
  <2>5. down'[Len(down')].seq = seq'
    BY <1>3, <2>1
  <2>6. synced => down'[1].seq = lastEventSeq + Advance(down'[1])
    BY <1>3, <2>1 DEF StampsInOrder
  <2>7. QED
    BY <1>3, <2>1, <2>3, <2>4, <2>5, <2>6 DEF StampsInOrder
<1>4. CASE Emit
  <2>1. CASE sock = "open"
    BY <1>3, <1>4, <2>1, EmitEffect DEF Advance
  <2>2. CASE sock # "open"
    <3>1. down' = down /\ down = <<>> /\ ~synced /\ synced' = synced
      BY <1>4, <2>2, EmitEffect DEF WireShape
    <3>2. lastEventSeq' <= seq'
      BY <1>1, <1>4, EmitEffect DEF StampsInOrder
    <3>3. QED
      BY <3>1, <3>2 DEF StampsInOrder
  <2>3. QED
    BY <2>1, <2>2
<1>5. /\ ViewMessage \in DownMessage /\ ViewMessage.kind = "view" /\ ViewMessage.seq = seq
      /\ Plain("error") \in DownMessage /\ Plain("error").kind = "error"
      /\ Plain("error").seq = seq
      /\ Plain("welcome").kind = "welcome" /\ Plain("welcome").seq = seq
  BY ViewType DEF ViewMessage, Plain, DownMessage
<1>6. CASE Greets
  <2>1. /\ down' = <<Plain("welcome"), ViewMessage>> /\ synced' = synced /\ ~synced
        /\ seq' = seq /\ lastEventSeq' = lastEventSeq
    BY <1>6 DEF Greets, WireShape, seq
  <2>2. Len(down') = 2 /\ down'[1] = Plain("welcome") /\ down'[2] = ViewMessage
    BY <2>1
  <2>3. QED
    BY <1>5, <2>1, <2>2 DEF StampsInOrder, Advance
<1>7. CASE Ends
  <2>1. seq' = seq
    <3>1. CASE history' = history
      BY <3>1 DEF seq
    <3>2. CASE Reopen
      BY <3>2 DEF Reopen, seq, TypeOK
    <3>3. QED
      BY <1>7, <3>1, <3>2 DEF Ends
  <2>2. QED
    BY <1>7, <2>1 DEF Ends, StampsInOrder
<1>8. CASE \E m \in {ViewMessage, Plain("error")} : Sends(m)
  <2>1. seq' = seq
    BY <1>8 DEF Sends, seq
  <2>2. QED
    BY <1>3, <1>5, <1>8, <2>1 DEF Sends, Advance
<1>9. CASE \E m \in DownMessage : Takes(m)
  <2>1. PICK m \in DownMessage : Takes(m)
    BY <1>9
  <2>2. /\ down[1] = m /\ Len(down) \in Nat /\ Len(down) > 0
        /\ Len(down') = Len(down) - 1 /\ \A i \in 1..Len(down') : down'[i] = down[i + 1]
        /\ seq' = seq
    BY <1>1, <2>1, TailOf DEF Takes, seq
  <2>3. lastEventSeq' \in {lastEventSeq, m.seq}
    BY <2>1 DEF Takes
  <2>4. synced' => lastEventSeq' = m.seq
    <3>1. CASE m.kind \in {"view", "event", "redacted"}
      BY <2>1, <3>1 DEF Takes
    <3>2. CASE m.kind \notin {"view", "event", "redacted"}
      <4>1. /\ synced => m.seq = lastEventSeq + Advance(m)
            /\ Advance(m) = 0
        BY <2>2, <3>2 DEF StampsInOrder, Advance
      <4>2. synced' = synced /\ lastEventSeq' = lastEventSeq
        BY <2>1, <3>2 DEF Takes
      <4>3. QED
        BY <1>1, <4>1, <4>2
    <3>3. QED
      BY <3>1, <3>2
  <2>5. /\ lastEventSeq' <= seq'
        /\ \A i \in 1..Len(down') : down'[i].seq <= seq'
    BY <1>1, <2>2, <2>3, SMTT(20) DEF StampsInOrder
  <2>6. /\ \A i \in 1..(Len(down') - 1) :
             down'[i + 1].seq = down'[i].seq + Advance(down'[i + 1])
        /\ Len(down') > 0 => down'[Len(down')].seq = seq'
    BY <2>2 DEF StampsInOrder
  <2>7. /\ Len(down') > 0 => down'[1].seq = m.seq + Advance(down'[1])
        /\ Len(down') = 0 => m.seq = seq
    BY <2>2 DEF StampsInOrder
  <2>8. QED
    BY <2>2, <2>4, <2>5, <2>6, <2>7 DEF StampsInOrder
<1>10. QED
  BY <1>2, <1>4, <1>6, <1>7, <1>8, <1>9, WireSteps

\* MessagesTrue for one message m, over the boards h.
TrueOf(m, h, c) ==
  /\ m.kind = "view" => m.view = ViewOf(h[m.seq + 1])
  /\ m.kind = "event" =>
       /\ m.seq > 0
       /\ \E i \in Intent : /\ h[m.seq + 1] = Mutate(h[m.seq], i)
                            /\ MakesNew(h[m.seq], i)
                            /\ m.event = StoredEvent(i)
  /\ m.kind = "redacted" => c = FALSE

AllTrue == \A i \in 1..Len(down) : TrueOf(down[i], history, cached)

LEMMA TrueMessages == TypeOK => (MessagesTrue <=> AllTrue)
<1> SUFFICES ASSUME TypeOK, NEW i \in 1..Len(down)
             PROVE  /\ /\ down[i].kind = "view" => down[i].view = ViewOf(BoardAt(down[i].seq))
                       /\ down[i].kind = "event" => IsEventAt(down[i].seq, down[i].event)
                       /\ down[i].kind = "redacted" => ~cached
                    <=> TrueOf(down[i], history, cached)
  BY DEF MessagesTrue, AllTrue
<1>1. down[i] \in DownMessage
  BY DEF TypeOK
<1>2. down[i].seq \in Nat
  BY <1>1, DownFields
<1>3. BoardAt(down[i].seq) = history[down[i].seq + 1]
  BY DEF BoardAt
<1>4. BoardAt(down[i].seq - 1) = history[down[i].seq]
  BY <1>2 DEF BoardAt
<1>5. IsEventAt(down[i].seq, down[i].event) <=>
        /\ down[i].seq > 0
        /\ \E j \in Intent : /\ history[down[i].seq + 1] = Mutate(history[down[i].seq], j)
                             /\ MakesNew(history[down[i].seq], j)
                             /\ down[i].event = StoredEvent(j)
  BY <1>3, <1>4 DEF IsEventAt
<1>6. ~cached <=> cached = FALSE
  BY Zenon DEF TypeOK
<1>7. QED
  BY <1>3, <1>5, <1>6 DEF TrueOf

\* A message stays true while the boards up to its number stay.
LEMMA TrueStays ==
  ASSUME NEW m \in DownMessage, NEW h, NEW h2, NEW c, NEW n \in Nat, m.seq <= n,
         \A k \in 1..(n + 1) : h2[k] = h[k], TrueOf(m, h, c)
  PROVE  TrueOf(m, h2, c)
<1>1. m.seq \in Nat
  BY DownFields
<1>2. h2[m.seq + 1] = h[m.seq + 1] /\ (m.seq > 0 => h2[m.seq] = h[m.seq])
  BY <1>1
<1>3. CASE m.kind = "event"
  BY <1>2, <1>3 DEF TrueOf
<1>4. CASE m.kind # "event"
  BY <1>2, <1>4 DEF TrueOf
<1>5. QED
  BY <1>3, <1>4

LEMMA StepMessages ==
  ASSUME TypeOK, WireShape, StampsInOrder, MessagesTrue, BoardsWhole, [Next]_vars
  PROVE  MessagesTrue'
<1>1. down \in Seq(DownMessage) /\ TypeOK'
  BY StepType DEF TypeOK
<1>2. \A i \in 1..Len(down) : TrueOf(down[i], history, cached)
  BY TrueMessages DEF AllTrue
<1>3. SUFFICES ASSUME NEW i \in 1..Len(down')
               PROVE  TrueOf(down'[i], history', cached')
  <2>1. TypeOK' => (MessagesTrue' <=> AllTrue')
    BY TrueMessages, PTL
  <2>2. AllTrue'
    BY <1>3 DEF AllTrue
  <2>3. QED
    BY <1>1, <2>1, <2>2
<1> USE BoardType
<1>4. CASE Still
  BY <1>2, <1>3, <1>4 DEF Still
<1>5. CASE Emit
  <2> DEFINE m == EventMessage(Head(todo))
             j == Head(todo)
  <2>1. \A k \in 1..(seq + 1) : history'[k] = history[k]
    <3> SUFFICES ASSUME NEW k \in 1..(seq + 1) PROVE history'[k] = history[k]
      OBVIOUS
    <3>1. k - 1 \in 0..seq /\ k = (k - 1) + 1
      OBVIOUS
    <3>2. PICK n \in 0..seq : n = k - 1
      BY <3>1
    <3>3. BoardAt(n)' = BoardAt(n)
      BY <1>5, EmitEffect
    <3>4. QED
      BY <3>2, <3>3 DEF BoardAt
  <2>2. history'[seq + 2] = Mutate(history[seq + 1], j)
    <3>1. PICK n : n = seq + 1
      OBVIOUS
    <3>2. BoardAt(n)' = Mutate(state, j)
      BY <1>5, <3>1, EmitEffect
    <3>3. QED
      BY <3>1, <3>2 DEF BoardAt, state
  <2>3. cached' = cached /\ cached \in BOOLEAN
    BY <1>5, EmitEffect, Zenon DEF TypeOK
  <2>4. MakesNew(history[seq + 1], j) /\ j \in Intent
    BY <1>5, EmitEffect DEF BoardsWhole, Emit, state, BoardAt
  <2>5. /\ m.seq = seq + 1
        /\ IF cached THEN m.kind = "event" /\ m.event = StoredEvent(j)
                     ELSE m.kind = "redacted"
    BY DEF EventMessage
  <2>6. TrueOf(m, history', cached')
    <3>1. history'[m.seq + 1] = Mutate(history'[m.seq], j) /\ MakesNew(history'[m.seq], j)
      BY <2>1, <2>2, <2>4, <2>5
    <3>2. CASE cached = TRUE
      BY <2>4, <2>5, <3>1, <3>2 DEF TrueOf
    <3>3. CASE cached = FALSE
      BY <2>3, <2>5, <3>3 DEF TrueOf
    <3>4. QED
      BY <2>3, <3>2, <3>3
  <2>7. /\ down'[i] = m \/ (i \in 1..Len(down) /\ down'[i] = down[i])
    <3>1. m \in DownMessage /\ (down' = IF sock = "open" THEN Append(down, m) ELSE down)
      BY <1>5, EmitEffect
    <3>2. QED
      BY <1>1, <1>3, <3>1, AppendOf
  <2>8. CASE i \in 1..Len(down) /\ down'[i] = down[i]
    <3>1. down[i] \in DownMessage /\ down[i].seq <= seq
      BY <1>1, <2>8 DEF StampsInOrder
    <3>2. TrueOf(down[i], history, cached')
      BY <1>2, <2>3, <2>8
    <3>3. TrueOf(down[i], history', cached')
      BY <2>1, <3>1, <3>2, TrueStays
    <3>4. QED
      BY <2>8, <3>3
  <2> HIDE DEF m
  <2>9. QED
    BY <2>6, <2>7, <2>8
<1>6. /\ ViewMessage \in DownMessage /\ Plain("error") \in DownMessage
      /\ \A c : TrueOf(ViewMessage, history, c)
      /\ \A c : TrueOf(Plain("error"), history, c)
      /\ \A c : TrueOf(Plain("welcome"), history, c)
  <2>1. ViewMessage \in DownMessage /\ Plain("error") \in DownMessage
    BY ViewType DEF ViewMessage, Plain, DownMessage
  <2>2. \A c : TrueOf(ViewMessage, history, c)
    BY DEF ViewMessage, TrueOf, state, BoardAt
  <2>3. \A c : TrueOf(Plain("error"), history, c) /\ TrueOf(Plain("welcome"), history, c)
    BY DEF Plain, TrueOf
  <2>4. QED
    BY <2>1, <2>2, <2>3
<1>7. CASE Greets
  <2>1. down' = <<Plain("welcome"), ViewMessage>> /\ history' = history
    BY <1>7 DEF Greets
  <2>2. i \in {1, 2} /\ (i = 1 => down'[i] = Plain("welcome"))
        /\ (i = 2 => down'[i] = ViewMessage)
    BY <1>3, <2>1
  <2>3. QED
    BY <1>6, <2>1, <2>2
<1>8. CASE Ends
  BY <1>3, <1>8 DEF Ends
<1>9. CASE \E m \in {ViewMessage, Plain("error")} : Sends(m)
  <2>1. PICK m \in {ViewMessage, Plain("error")} : Sends(m)
    BY <1>9
  <2>2. /\ down' = Append(down, m) /\ history' = history /\ cached' = cached
        /\ m \in DownMessage
    BY <1>6, <2>1 DEF Sends
  <2>3. down'[i] = m \/ (i \in 1..Len(down) /\ down'[i] = down[i])
    BY <1>1, <1>3, <2>2, AppendOf
  <2>4. TrueOf(m, history, cached)
    BY <1>6, <2>1
  <2>5. QED
    BY <1>2, <2>2, <2>3, <2>4
<1>10. CASE \E m \in DownMessage : Takes(m)
  <2>1. down # <<>> /\ down' = Tail(down) /\ history' = history /\ cached' = cached
    BY <1>10 DEF Takes
  <2>2. i + 1 \in 1..Len(down) /\ down'[i] = down[i + 1]
    BY <1>1, <1>3, <2>1, TailOf
  <2>3. QED
    BY <1>2, <2>1, <2>2
<1>11. QED
  BY <1>4, <1>5, <1>7, <1>8, <1>9, <1>10, WireSteps

\* The engine rests, starts on a request, emits, or is opened again.
LEMMA EngineSteps ==
  ASSUME TypeOK, [Next]_vars
  PROVE  \/ UNCHANGED <<history, todo>>
         \/ /\ Free /\ history' = history
            /\ \E args, r : r \in Request /\ Serve(args, r)
         \/ Emit
         \/ Reopen
<1> USE DEF engineVars, wireVars, clientVars
<1>1. CASE LoseEarly \/ Accept \/ ServeView \/ Open
  BY <1>1 DEF LoseEarly, Accept, ServeView, Open
<1>2. CASE ServeDispatch
  <2>1. Head(up) \in UpMessage /\ Head(up).kind = "dispatch"
    BY <1>2 DEF ServeDispatch, TypeOK
  <2>2. Head(up).request \in Request
    BY <2>1, UpFields
  <2>3. Free /\ history' = history /\ (Serve(OwnArgs, Head(up).request) \/ todo' = todo)
    BY <1>2 DEF ServeDispatch
  <2>4. QED
    BY <2>2, <2>3
<1>3. CASE ServeOther
  <2>1. PICK input \in Inputs : Serve(ResolverArgs(input), input.request)
    BY <1>3 DEF ServeOther
  <2>2. input.request \in Request
    BY MirrorAssumption DEF Input
  <2>3. Free /\ history' = history
    BY <1>3 DEF ServeOther
  <2>4. QED
    BY <2>1, <2>2, <2>3
<1>4. CASE Receive
  BY <1>4 DEF Receive, Welcomed, Viewed, EventReceived, RedactedReceived, Rejected
<1>5. CASE \/ LetGo \/ \E t \in TokenIds : Grab(t)
           \/ \E t \in TokenIds, p \in Positions : Release(t, p)
  BY <1>5 DEF Release, LetGo, Grab
<1>6. CASE Drop
  BY <1>6 DEF Drop
<1>7. CASE UNCHANGED vars
  BY <1>7 DEF vars
<1>8. QED
  BY <1>1, <1>2, <1>3, <1>4, <1>5, <1>6, <1>7 DEF Next, Server

\* The first intent of a request creates no token that is there.
LEMMA BeginMakesNew ==
  ASSUME NEW st \in State, NEW r \in Request, NEW args, NEW rulesets,
         Resolves(st, args, r), NEW q \in IntentsOf(st, r, rulesets)
  PROVE  MakesNew(st, Head(q))
<1>1. CASE r.kind = "token.create"
  <2>1. q = <<r>>
    BY <1>1 DEF IntentsOf
  <2>2. ~TokenExists(st, r.tokenId)
    BY <1>1 DEF Resolves, CanMoveToken, CanSpeak, CanEditTokens, CanEditActors, CanEditScenes
  <2>3. QED
    BY <2>1, <2>2 DEF MakesNew
<1>2. CASE r.kind # "token.create"
  <2>1. Head(q).kind # "token.create"
    <3>1. CASE r.kind = "scene.delete"
      <4>1. PICK o \in Orders(TokensIn(st, r.sceneId)) : q = Cascade(r, o)
        BY <3>1 DEF IntentsOf
      <4>2. q \in Seq(Intent) /\ Len(q) > 0
        BY IntentsType
      <4>3. Safe(st, q)
        BY <3>1, <4>1, CascadeIsSafe
      <4>4. Head(q) = q[1] /\ q[1].kind \in {"token.delete", "chat.send", "scene.delete"}
        BY <4>2, <4>3 DEF Safe
      <4>5. QED
        BY <4>4
    <3>2. CASE r.kind # "scene.delete"
      <4>1. CASE r.kind = "token.move" /\ "dnd" \in rulesets
        BY <4>1, MoveIntents
      <4>2. CASE ~(r.kind = "token.move" /\ "dnd" \in rulesets)
        BY <1>2, <3>2, <4>2 DEF IntentsOf
      <4>3. QED
        BY <4>1, <4>2
    <3>3. QED
      BY <3>1, <3>2
  <2>2. QED
    BY <2>1 DEF MakesNew
<1>3. QED
  BY <1>1, <1>2

LEMMA StepBoards ==
  ASSUME TypeOK, BoardsWhole, [Next]_vars
  PROVE  BoardsWhole'
<1> USE BoardType
<1>1. CASE UNCHANGED <<history, todo>>
  BY <1>1 DEF BoardsWhole, seq, state, BoardAt, Free
<1>2. CASE /\ Free /\ history' = history
           /\ \E args, r : r \in Request /\ Serve(args, r)
  <2>1. PICK args, r : r \in Request /\ Serve(args, r)
    BY <1>2
  <2>2. PICK q \in IntentsOf(state, r, Rulesets) : todo' = q
    BY <2>1 DEF Serve
  <2>3. Resolves(state, args, r) /\ Integrity(state)
    BY <2>1 DEF Serve, BoardsWhole, state
  <2>4. /\ MakesNew(state, Head(q)) /\ Integrity(Mutate(state, Head(q)))
        /\ Safe(Mutate(state, Head(q)), Tail(q))
    BY <2>1, <2>2, <2>3, BeginIsSafe, BeginMakesNew
  <2>5. state' = state /\ seq' = seq /\ \A n : BoardAt(n)' = BoardAt(n)
    BY <1>2 DEF seq, state, BoardAt
  <2>6. QED
    BY <2>2, <2>4, <2>5 DEF BoardsWhole
<1>3. CASE Emit
  <2> DEFINE q == Tail(todo)
             st2 == Mutate(state, Head(todo))
  <2>1. PICK n \in Nat : n = seq + 1
    OBVIOUS
  <2>2. /\ q \in Seq(Intent) /\ todo' = q /\ st2 \in State
        /\ seq' = n /\ BoardAt(n)' = st2
        /\ \A k \in 0..seq : BoardAt(k)' = BoardAt(k)
    BY <1>3, <2>1, EmitEffect, MutateType DEF Emit
  <2>3. state' = st2
    BY <2>2 DEF state
  <2>4. Integrity(st2) /\ Safe(st2, q)
    BY <1>3 DEF BoardsWhole, Emit
  <2>5. \A k \in 0..n : Integrity(BoardAt(k)')
    <3> SUFFICES ASSUME NEW k \in 0..n PROVE Integrity(BoardAt(k)')
      OBVIOUS
    <3>1. CASE k = n
      BY <2>2, <2>4, <3>1
    <3>2. CASE k # n
      BY <2>1, <2>2, <3>2 DEF BoardsWhole
    <3>3. QED
      BY <3>1, <3>2
  <2> HIDE DEF q, st2
  <2>6. q # <<>> => /\ MakesNew(st2, Head(q)) /\ Integrity(Mutate(st2, Head(q)))
                    /\ Safe(Mutate(st2, Head(q)), Tail(q))
    <3> SUFFICES ASSUME q # <<>>
                 PROVE  /\ MakesNew(st2, Head(q)) /\ Integrity(Mutate(st2, Head(q)))
                        /\ Safe(Mutate(st2, Head(q)), Tail(q))
      OBVIOUS
    <3>1. q \in Seq(Intent) /\ Len(q) > 0 /\ Head(q) = q[1]
      BY <2>2, TailOf
    <3>2. q[1].kind # "token.create"
      BY <2>4, <3>1 DEF Safe
    <3>3. QED
      BY <2>2, <2>4, <3>1, <3>2, SafeStep DEF MakesNew
  <2>7. QED
    BY <2>2, <2>3, <2>5, <2>6 DEF BoardsWhole, Free
<1>4. CASE Reopen
  <2>1. todo' = <<>> /\ history' = [history EXCEPT ![Len(history)] = Seed]
    BY <1>4 DEF Reopen
  <2>2. seq' = seq
    BY <2>1 DEF seq, TypeOK
  <2>3. \A n \in 0..seq : history'[n + 1] \in {history[n + 1], Seed}
    BY <2>1 DEF TypeOK
  <2>4. \A n \in 0..seq : Integrity(history'[n + 1])
    BY <2>3, MirrorAssumption DEF BoardsWhole, BoardAt
  <2>5. QED
    BY <2>1, <2>2, <2>4 DEF BoardsWhole, BoardAt, Free
<1>5. QED
  BY <1>1, <1>2, <1>3, <1>4, EngineSteps

InStep ==
  Following => Agrees(mirror, pending, Base, viewed) /\ Permits(mirror, Base)

LEMMA InStepIff == InStep <=> MirrorInStep /\ PermissionsInStep
BY DEF InStep, MirrorInStep, PermissionsInStep, Agrees, Permits, Confirmed

\* What is true of the message that is received next.
LEMMA HeadIsTrue ==
  ASSUME TypeOK, StampsInOrder, MessagesTrue, NEW k, Received(k)
  PROVE  /\ down[1] = Head(down) /\ Head(down) \in DownMessage
         /\ Head(down).kind = k /\ Head(down).seq \in 0..seq
         /\ k = "view" => Head(down).view = ViewOf(BoardAt(Head(down).seq))
         /\ k = "event" => IsEventAt(Head(down).seq, Head(down).event)
         /\ k = "redacted" => ~cached
<1>1. down \in Seq(DownMessage) /\ down # <<>> /\ Head(down).kind = k
  BY DEF Received, TypeOK
<1>2. down[1] = Head(down) /\ 1 \in 1..Len(down) /\ down[1] \in DownMessage
  BY <1>1, TailOf
<1>3. down[1].seq \in 0..seq
  BY <1>2, BoardType, DownFields DEF StampsInOrder
<1>4. QED
  BY <1>1, <1>2, <1>3 DEF MessagesTrue

LEMMA StepInStep ==
  ASSUME TypeOK, WireShape, StampsInOrder, MessagesTrue, BoardsWhole, PendingHasToken,
         InStep, [Next]_vars
  PROVE  InStep'
<1> USE BoardType DEF engineVars, wireVars, clientVars
<1>1. CASE UNCHANGED <<mirror, pending, viewed, lastEventSeq, history, synced, cached>>
  BY <1>1 DEF InStep, Following, Base, BoardAt
<1>2. CASE LoseEarly \/ Accept \/ ServeView \/ ServeDispatch \/ ServeOther
  BY <1>1, <1>2 DEF LoseEarly, Accept, ServeView, ServeDispatch, ServeOther
<1>3. CASE Open \/ Welcomed
  BY <1>1, <1>3 DEF Open, Welcomed
<1>4. CASE Emit
  <2>1. lastEventSeq \in 0..seq
    BY DEF StampsInOrder, TypeOK
  <2>2. PICK n \in 0..seq : n = lastEventSeq
    BY <2>1
  <2>3. BoardAt(n)' = BoardAt(n)
    BY <1>4, EmitEffect
  <2>4. lastEventSeq' = lastEventSeq
    BY <1>4 DEF Emit
  <2>5. Base' = Base
    BY <2>2, <2>3, <2>4 DEF Base, BoardAt
  <2>6. UNCHANGED <<mirror, pending, viewed, synced, cached>>
    BY <1>4 DEF Emit
  <2>7. QED
    BY <2>5, <2>6 DEF InStep, Following
<1>5. CASE Viewed
  <2> DEFINE m == Head(down)
  <2>1. m.seq \in 0..seq /\ m.view = ViewOf(BoardAt(m.seq))
    BY <1>5, HeadIsTrue DEF Viewed
  <2>2. PICK st : st = BoardAt(m.seq)
    OBVIOUS
  <2>3. st \in State /\ Integrity(st)
    BY <2>1, <2>2 DEF BoardsWhole
  <2>4. Agrees(m.view, NoPending, st, m.view.activeSceneId) /\ Permits(m.view, st)
    BY <2>1, <2>2, <2>3, ViewAgrees
  <2>5. /\ mirror' = m.view /\ pending' = NoPending /\ viewed' = m.view.activeSceneId
        /\ lastEventSeq' = m.seq /\ history' = history
    BY <1>5 DEF Viewed, TakeView
  <2>6. Base' = st
    BY <2>2, <2>5 DEF Base, BoardAt
  <2> HIDE DEF m
  <2>7. QED
    BY <2>4, <2>5, <2>6 DEF InStep
<1>6. CASE EventReceived
  <2> DEFINE m == Head(down)
  <2>1. synced /\ m.seq = lastEventSeq + 1 /\ ~Gap(m.seq) /\ lastEventSeq \in Nat
    BY <1>6, InTurn DEF EventReceived, TypeOK
  <2>2. m.seq \in 0..seq /\ IsEventAt(m.seq, m.event)
    BY <1>6, HeadIsTrue DEF EventReceived
  <2>3. m.seq - 1 = lastEventSeq
    BY <2>1
  <2>4. PICK i \in Intent : /\ BoardAt(m.seq) = Mutate(Base, i)
                            /\ MakesNew(Base, i) /\ m.event = StoredEvent(i)
    BY <2>2, <2>3 DEF IsEventAt, Base
  <2>5. /\ mirror' = ApplyEvent(mirror, m.event)
        /\ pending' = [t \in TokenIds |-> IF Settles(m.event, t) THEN None ELSE pending[t]]
        /\ lastEventSeq' = m.seq /\ UNCHANGED <<history, viewed, synced, cached>>
    BY <1>6, <2>1 DEF EventReceived
  <2>6. Base' = BoardAt(m.seq)
    BY <2>5 DEF Base, BoardAt
  <2>7. PICK st : st = Base
    OBVIOUS
  <2>8. st \in State
    BY <2>1, <2>2, <2>7 DEF Base
  <2>9. SUFFICES ASSUME Following
                 PROVE  Agrees(mirror', pending', Base', viewed) /\ Permits(mirror', Base')
    BY <2>5 DEF InStep, Following
  <2>10. Agrees(mirror, pending, st, viewed) /\ Permits(mirror, st) /\ MakesNew(st, i)
    BY <2>4, <2>7, <2>9 DEF InStep
  <2>11. /\ mirror \in State /\ pending \in [TokenIds -> Positions \cup {None}]
         /\ \A t \in TokenIds : pending[t] # None => TokenExists(mirror, t)
    BY DEF TypeOK, PendingHasToken
  <2>12. Agrees(mirror', pending', Mutate(st, i), viewed)
    BY <2>4, <2>5, <2>8, <2>10, <2>11, EventAgrees
  <2>13. Permits(mirror', Mutate(st, i))
    BY <2>4, <2>5, <2>8, <2>10, <2>11, EventPermits
  <2>14. QED
    BY <2>4, <2>6, <2>7, <2>12, <2>13
<1>7. CASE RedactedReceived
  <2>1. ~cached
    BY <1>7, HeadIsTrue DEF RedactedReceived
  <2>2. cached' = cached
    BY <1>7 DEF RedactedReceived
  <2>3. QED
    BY <2>1, <2>2 DEF InStep, Following
<1>8. CASE Rejected
  <2>1. /\ UNCHANGED <<history, lastEventSeq, viewed, synced, cached>> /\ RevertMoves
        /\ mirror'.actors = mirror.actors
    BY <1>8 DEF Rejected, RevertMoves, TypeOK, State
  <2>2. PICK st : st = Base
    OBVIOUS
  <2>3. Base' = st
    BY <2>1, <2>2 DEF Base, BoardAt
  <2>4. Agrees(mirror, pending, st, viewed) => Agrees(mirror', pending', st, viewed)
    BY <2>1, RevertAgrees
  <2>5. QED
    BY <2>1, <2>2, <2>3, <2>4 DEF InStep, Following, Permits, ActorExists
<1>9. CASE \E t \in TokenIds, p \in Positions : Release(t, p)
  <2>1. PICK t \in TokenIds, p \in Positions : Release(t, p)
    BY <1>9
  <2>2. /\ UNCHANGED <<history, lastEventSeq, viewed, synced, cached>>
        /\ mirror'.actors = mirror.actors
    BY <2>1 DEF Release, MoveAhead, PutToken, TypeOK, State
  <2>3. PICK st : st = Base
    OBVIOUS
  <2>4. Base' = st
    BY <2>2, <2>3 DEF Base, BoardAt
  <2>5. Agrees(mirror, pending, st, viewed) => Agrees(mirror', pending', st, viewed)
    <3>1. CASE TokenExists(mirror, t)
      BY <2>1, <3>1, MoveAheadAgrees DEF Release
    <3>2. CASE ~TokenExists(mirror, t)
      <4>1. mirror' = mirror /\ pending' = pending
        BY <2>1, <3>2 DEF Release, MoveAhead
      <4>2. QED
        BY <4>1
    <3>3. QED
      BY <3>1, <3>2
  <2>6. QED
    BY <2>2, <2>3, <2>4, <2>5 DEF InStep, Following, Permits, ActorExists
<1>10. CASE Drop \/ Reopen
  <2>1. synced' = FALSE
    BY <1>10 DEF Drop, Reopen, Disconnect
  <2>2. QED
    BY <2>1 DEF InStep, Following
<1>11. CASE UNCHANGED vars
  BY <1>1, <1>11 DEF vars
<1>12. CASE LetGo \/ \E t \in TokenIds : Grab(t)
  BY <1>1, <1>12 DEF LetGo, Grab
<1>13. QED
  BY <1>2, <1>3, <1>4, <1>5, <1>6, <1>7, <1>8, <1>9, <1>10, <1>11, <1>12
     DEF Next, Server, Receive

\* An event takes away no token but the one it settles.
LEMMA EventKeepsTokens ==
  ASSUME NEW mr \in State, NEW e \in Intent, NEW t \in TokenIds,
         TokenExists(mr, t), ~Settles(e, t)
  PROVE  TokenExists(ApplyEvent(mr, e), t)
<1>1. CASE e.kind \in {"token.move", "token.create", "token.delete",
                       "token.linkToActor", "token.replaceData"}
  <2>1. CASE t = e.tokenId
    BY <1>1, <2>1, TokenIntent DEF ApplyEvent, Settles, TokenExists
  <2>2. CASE t # e.tokenId
    BY <1>1, <2>2, TokenIntent DEF ApplyEvent, TokenExists
  <2>3. QED
    BY <2>1, <2>2
<1>2. CASE e.kind \notin {"token.move", "token.create", "token.delete",
                          "token.linkToActor", "token.replaceData"}
  BY <1>2, OtherIntent DEF ApplyEvent, TokenExists
<1>3. QED
  BY <1>1, <1>2

LEMMA StepPendingHasToken ==
  ASSUME TypeOK, PendingHasToken, [Next]_vars
  PROVE  PendingHasToken'
<1> USE DEF engineVars, wireVars, clientVars
<1>1. CASE UNCHANGED <<mirror, pending>>
  BY <1>1 DEF PendingHasToken, TokenExists
<1>2. CASE LoseEarly \/ Accept \/ ServeView \/ ServeDispatch \/ ServeOther \/ Emit
  BY <1>1, <1>2 DEF LoseEarly, Accept, ServeView, ServeDispatch, ServeOther, Emit
<1>3. CASE Open \/ Welcomed \/ RedactedReceived
  BY <1>1, <1>3 DEF Open, Welcomed, RedactedReceived, Resync
<1>4. CASE Viewed \/ Rejected
  <2>1. pending' = NoPending
    BY <1>4 DEF Viewed, TakeView, Rejected, RevertMoves
  <2>2. QED
    BY <2>1 DEF PendingHasToken, NoPending
<1>5. CASE EventReceived
  <2>1. CASE Gap(Head(down).seq)
    BY <1>1, <1>5, <2>1 DEF EventReceived, Resync
  <2>2. CASE ~Gap(Head(down).seq)
    <3> DEFINE e == Head(down).event
    <3>1. Head(down) \in DownMessage /\ Head(down).kind = "event"
      BY <1>5, TailOf DEF EventReceived, Received, TypeOK
    <3>2. e \in Intent
      BY <3>1, DownFields
    <3>3. /\ mirror' = ApplyEvent(mirror, e)
          /\ pending' = [t \in TokenIds |-> IF Settles(e, t) THEN None ELSE pending[t]]
      BY <1>5, <2>2 DEF EventReceived
    <3>4. SUFFICES ASSUME NEW t \in TokenIds, pending'[t] # None
                   PROVE  TokenExists(mirror', t)
      BY DEF PendingHasToken
    <3>5. ~Settles(e, t) /\ pending[t] # None
      BY <3>3, <3>4
    <3>6. QED
      BY <3>2, <3>3, <3>5, EventKeepsTokens DEF PendingHasToken, TypeOK
  <2>3. QED
    BY <2>1, <2>2
<1>6. CASE \E t \in TokenIds, p \in Positions : Release(t, p)
  <2>1. PICK u \in TokenIds, p \in Positions : Release(u, p)
    BY <1>6
  <2>2. CASE TokenExists(mirror, u)
    <3>1. mirror.tokens[u] \in Token
      BY <2>2 DEF TokenExists, TypeOK, State
    <3>2. /\ mirror'.tokens[u] \in Token
          /\ \A t \in TokenIds : t # u => mirror'.tokens[t] = mirror.tokens[t]
      <4>1. mirror' = PutToken(mirror, u, p)
        BY <2>1, <2>2 DEF Release, MoveAhead
      <4>2. QED
        BY <3>1, <4>1 DEF PutToken, TypeOK, State, Token
    <3>3. \A t \in TokenIds : t # u => pending'[t] = pending[t]
      BY <2>1, <2>2 DEF Release, MoveAhead, Remember, TypeOK
    <3>4. QED
      BY <3>2, <3>3, EntityAssumption DEF PendingHasToken, TokenExists
  <2>3. CASE ~TokenExists(mirror, u)
    BY <1>1, <2>1, <2>3 DEF Release, MoveAhead
  <2>4. QED
    BY <2>2, <2>3
<1>7. CASE Drop \/ Reopen
  BY <1>1, <1>7 DEF Drop, Reopen, Disconnect
<1>8. CASE UNCHANGED vars
  BY <1>1, <1>8 DEF vars
<1>9. CASE LetGo \/ \E t \in TokenIds : Grab(t)
  BY <1>1, <1>9 DEF LetGo, Grab
<1>10. QED
  BY <1>2, <1>3, <1>4, <1>5, <1>6, <1>7, <1>8, <1>9 DEF Next, Server, Receive

\* PendingIsAnswered for one token.
Answered(t) ==
  \/ \E i \in 1..Len(up) : up[i].kind = "dispatch" /\ Moves(up[i].request, t)
  \/ \E i \in 1..Len(todo) : Moves(todo[i], t)
  \/ \E i \in 1..Len(down) : Answers(down[i], t)

\* The answers on their way stay when messages are added behind them.
LEMMA AddedKeepsAnswered ==
  ASSUME TypeOK, NEW t, Answered(t), todo' = todo,
         \/ up' = up
         \/ \E m \in UpMessage : up' = Append(up, m),
         \/ down' = down
         \/ \E m \in DownMessage : down' = Append(down, m)
  PROVE  Answered(t)'
<1>1. up \in Seq(UpMessage) /\ down \in Seq(DownMessage)
  BY DEF TypeOK
<1>2. /\ Len(up') \in Nat /\ Len(up) \in Nat /\ Len(up') >= Len(up)
      /\ \A i \in 1..Len(up) : up'[i] = up[i]
  BY <1>1, AppendOf
<1>3. /\ Len(down') \in Nat /\ Len(down) \in Nat /\ Len(down') >= Len(down)
      /\ \A i \in 1..Len(down) : down'[i] = down[i]
  BY <1>1, AppendOf, SMTT(20)
<1>4. CASE \E i \in 1..Len(up) : up[i].kind = "dispatch" /\ Moves(up[i].request, t)
  <2>1. PICK i \in 1..Len(up) : up[i].kind = "dispatch" /\ Moves(up[i].request, t)
    BY <1>4
  <2>2. i \in 1..Len(up') /\ up'[i].kind = "dispatch" /\ Moves(up'[i].request, t)
    BY <1>2, <2>1
  <2>3. QED
    BY <2>2 DEF Answered
<1>5. CASE \E i \in 1..Len(todo) : Moves(todo[i], t)
  BY <1>5 DEF Answered
<1>6. CASE \E i \in 1..Len(down) : Answers(down[i], t)
  <2>1. PICK i \in 1..Len(down) : Answers(down[i], t)
    BY <1>6
  <2>2. i \in 1..Len(down') /\ Answers(down'[i], t)
    BY <1>3, <2>1
  <2>3. QED
    BY <2>2 DEF Answered
<1>7. QED
  BY <1>4, <1>5, <1>6 DEF Answered

\* They stay when the client takes a message that was none of them.
LEMMA TakenKeepsAnswered ==
  ASSUME TypeOK, NEW t, Answered(t), todo' = todo,
         \/ up' = up
         \/ \E m \in UpMessage : up' = Append(up, m),
         down # <<>>, down' = Tail(down), ~Answers(Head(down), t)
  PROVE  Answered(t)'
<1>1. up \in Seq(UpMessage) /\ down \in Seq(DownMessage)
  BY DEF TypeOK
<1>2. /\ Len(up') \in Nat /\ Len(up) \in Nat /\ Len(up') >= Len(up)
      /\ \A i \in 1..Len(up) : up'[i] = up[i]
  BY <1>1, AppendOf
<1>3. /\ Len(down) \in Nat /\ Len(down') = Len(down) - 1 /\ Head(down) = down[1]
      /\ \A i \in 1..Len(down') : down'[i] = down[i + 1]
  BY <1>1, TailOf
<1>4. CASE \E i \in 1..Len(up) : up[i].kind = "dispatch" /\ Moves(up[i].request, t)
  <2>1. PICK i \in 1..Len(up) : up[i].kind = "dispatch" /\ Moves(up[i].request, t)
    BY <1>4
  <2>2. i \in 1..Len(up') /\ up'[i].kind = "dispatch" /\ Moves(up'[i].request, t)
    BY <1>2, <2>1
  <2>3. QED
    BY <2>2 DEF Answered
<1>5. CASE \E i \in 1..Len(todo) : Moves(todo[i], t)
  BY <1>5 DEF Answered
<1>6. CASE \E i \in 1..Len(down) : Answers(down[i], t)
  <2>1. PICK i \in 1..Len(down) : Answers(down[i], t)
    BY <1>6
  <2>2. i # 1
    BY <1>3, <2>1
  <2>3. i - 1 \in 1..Len(down') /\ down'[i - 1] = down[i]
    BY <1>3, <2>2
  <2>4. \E k \in 1..Len(down') : Answers(down'[k], t)
    BY <2>1, <2>3
  <2>5. QED
    BY <2>4 DEF Answered
<1>7. QED
  BY <1>4, <1>5, <1>6 DEF Answered

LEMMA StepPending ==
  ASSUME TypeOK, WireShape, StampsInOrder, PendingIsAnswered, [Next]_vars
  PROVE  PendingIsAnswered'
<1> USE BoardType DEF engineVars, wireVars, clientVars
<1>1. SUFFICES ASSUME synced', cached', NEW t \in TokenIds, pending'[t] # None
               PROVE  Answered(t)'
  BY DEF PendingIsAnswered, Answered
<1>2. ASSUME synced, cached, pending[t] # None
      PROVE  Answered(t) /\ sock = "open"
  BY <1>2 DEF PendingIsAnswered, Answered, WireShape
<1>3. /\ ViewMessage \in DownMessage /\ Plain("error") \in DownMessage
      /\ Answers(Plain("error"), t)
      /\ [kind |-> "view.request"] \in UpMessage
  <2>1. ViewMessage \in DownMessage /\ Plain("error") \in DownMessage
    BY ViewType DEF ViewMessage, Plain, DownMessage
  <2>2. Answers(Plain("error"), t)
    BY DEF Answers, Plain
  <2>3. [kind |-> "view.request"] \in UpMessage
    BY DEF UpMessage
  <2>4. QED
    BY <2>1, <2>2, <2>3
<1>4. up \in Seq(UpMessage) /\ down \in Seq(DownMessage) /\ todo \in Seq(Intent)
  BY DEF TypeOK
<1>5. CASE LoseEarly \/ Accept \/ Open
  <2>1. sock # "open" /\ synced' = synced
    BY <1>5 DEF LoseEarly, Accept, Open
  <2>2. QED
    BY <1>1, <2>1 DEF WireShape
<1>6. CASE Drop \/ Reopen
  <2>1. synced' = FALSE
    BY <1>6 DEF Drop, Reopen, Disconnect
  <2>2. QED
    BY <1>1, <2>1
<1>7. CASE Viewed \/ Rejected
  <2>1. pending' = NoPending
    BY <1>7 DEF Viewed, TakeView, Rejected, RevertMoves
  <2>2. QED
    BY <1>1, <2>1 DEF NoPending
<1>8. CASE ServeView
  <2>1. /\ up # <<>> /\ up' = Tail(up) /\ down' = Append(down, ViewMessage)
        /\ Head(up).kind = "view.request"
        /\ UNCHANGED <<synced, cached, pending, todo>>
    BY <1>8 DEF ServeView
  <2>2. /\ Len(down) \in Nat /\ Len(down') = Len(down) + 1
        /\ down'[Len(down) + 1] = ViewMessage
    BY <1>3, <1>4, <2>1, AppendOf
  <2>3. Answers(ViewMessage, t)
    BY DEF Answers, ViewMessage
  <2>4. \E i \in 1..Len(down') : Answers(down'[i], t)
    BY <2>2, <2>3
  <2>5. QED
    BY <2>4 DEF Answered
<1>9. CASE ServeDispatch
  <2>1. /\ up # <<>> /\ up' = Tail(up) /\ Head(up).kind = "dispatch" /\ Free
        /\ UNCHANGED <<synced, cached, pending>>
    BY <1>9 DEF ServeDispatch
  <2>2. Answered(t)
    BY <1>1, <1>2, <2>1
  <2>3. /\ Len(up) \in Nat /\ Len(up') = Len(up) - 1 /\ Head(up) = up[1]
        /\ \A i \in 1..Len(up') : up'[i] = up[i + 1]
        /\ up[1] \in UpMessage
    BY <1>4, <2>1, TailOf
  <2>4. CASE \E i \in 1..Len(down) : Answers(down[i], t)
    <3>1. PICK i \in 1..Len(down) : Answers(down[i], t)
      BY <2>4
    <3>2. down' = down \/ down' = Append(down, Plain("error"))
      BY <1>9 DEF ServeDispatch
    <3>3. i \in 1..Len(down') /\ down'[i] = down[i]
      BY <1>3, <1>4, <3>2, AppendOf
    <3>4. \E k \in 1..Len(down') : Answers(down'[k], t)
      BY <3>1, <3>3
    <3>5. QED
      BY <3>4 DEF Answered
  <2>5. CASE \E i \in 1..Len(up) : up[i].kind = "dispatch" /\ Moves(up[i].request, t)
    <3>1. PICK i \in 1..Len(up) : up[i].kind = "dispatch" /\ Moves(up[i].request, t)
      BY <2>5
    <3>2. CASE i # 1
      <4>1. i - 1 \in 1..Len(up') /\ up'[i - 1] = up[i]
        BY <2>3, <3>2
      <4>2. \E k \in 1..Len(up') : up'[k].kind = "dispatch" /\ Moves(up'[k].request, t)
        BY <3>1, <4>1
      <4>3. QED
        BY <4>2 DEF Answered
    <3>3. CASE i = 1
      <4> DEFINE r == Head(up).request
      <4>1. r \in Request /\ Moves(r, t)
        BY <2>1, <2>3, <3>1, <3>3, UpFields
      <4>2. CASE Serve(OwnArgs, r)
        <5>1. todo' = <<r>> \/ todo' = <<r, [kind |-> "chat.send"]>>
          <6>1. r.kind = "token.move"
            BY <4>1 DEF Moves
          <6>2. todo' \in IntentsOf(state, r, Rulesets)
            BY <4>2 DEF Serve
          <6>3. CASE "dnd" \in Rulesets
            BY <6>1, <6>2, <6>3, MoveIntents
          <6>4. CASE "dnd" \notin Rulesets
            BY <6>1, <6>2, <6>4 DEF IntentsOf
          <6>5. QED
            BY <6>3, <6>4
        <5> HIDE DEF r
        <5>2. Len(todo') \in Nat /\ 1 \in 1..Len(todo') /\ todo'[1] = r
          BY <5>1
        <5>3. \E k \in 1..Len(todo') : Moves(todo'[k], t)
          BY <4>1, <5>2
        <5>4. QED
          BY <5>3 DEF Answered
      <4>3. CASE down' = Append(down, Plain("error"))
        <5>1. /\ Len(down) \in Nat /\ Len(down') = Len(down) + 1
              /\ down'[Len(down) + 1] = Plain("error")
          BY <1>3, <1>4, <4>3, AppendOf
        <5>2. \E k \in 1..Len(down') : Answers(down'[k], t)
          BY <1>3, <5>1
        <5>3. QED
          BY <5>2 DEF Answered
      <4>4. Serve(OwnArgs, r) \/ down' = Append(down, Plain("error"))
        BY <1>9 DEF ServeDispatch
      <4>5. QED
        BY <4>2, <4>3, <4>4
    <3>4. QED
      BY <3>2, <3>3
  <2>6. ~ \E i \in 1..Len(todo) : Moves(todo[i], t)
    BY <2>1 DEF Free
  <2>7. QED
    BY <2>2, <2>4, <2>5, <2>6 DEF Answered
<1>10. CASE ServeOther
  <2>1. Free /\ UNCHANGED <<up, down, synced, cached, pending>>
    BY <1>10 DEF ServeOther
  <2>2. Answered(t) /\ ~ \E i \in 1..Len(todo) : Moves(todo[i], t)
    BY <1>1, <1>2, <2>1 DEF Free
  <2>3. QED
    BY <2>1, <2>2 DEF Answered
<1>11. CASE Emit
  <2> DEFINE m == EventMessage(Head(todo))
  <2>1. /\ UNCHANGED <<sock, up, synced, cached, pending>>
        /\ todo' = Tail(todo) /\ todo # <<>>
    BY <1>11 DEF Emit, Free
  <2>2. Answered(t) /\ sock = "open"
    BY <1>1, <1>2, <2>1
  <2>3. down' = Append(down, m) /\ m \in DownMessage
    BY <1>11, <2>2, EmitEffect
  <2>4. /\ Len(down) \in Nat /\ Len(down') = Len(down) + 1 /\ down'[Len(down) + 1] = m
        /\ \A i \in 1..Len(down) : down'[i] = down[i]
    BY <1>4, <2>3, AppendOf
  <2>5. /\ Len(todo) \in Nat /\ Len(todo') = Len(todo) - 1 /\ Head(todo) = todo[1]
        /\ \A i \in 1..Len(todo') : todo'[i] = todo[i + 1]
        /\ Head(todo) \in Intent
    BY <1>4, <2>1, TailOf
  <2>6. CASE \E i \in 1..Len(up) : up[i].kind = "dispatch" /\ Moves(up[i].request, t)
    BY <2>1, <2>6 DEF Answered
  <2>7. CASE \E i \in 1..Len(down) : Answers(down[i], t)
    <3>1. PICK i \in 1..Len(down) : Answers(down[i], t)
      BY <2>7
    <3>2. \E k \in 1..Len(down') : Answers(down'[k], t)
      BY <2>4, <3>1
    <3>3. QED
      BY <3>2 DEF Answered
  <2>8. CASE \E i \in 1..Len(todo) : Moves(todo[i], t)
    <3>1. PICK i \in 1..Len(todo) : Moves(todo[i], t)
      BY <2>8
    <3>2. CASE i # 1
      <4>1. i - 1 \in 1..Len(todo') /\ todo'[i - 1] = todo[i]
        BY <2>5, <3>2
      <4>2. \E k \in 1..Len(todo') : Moves(todo'[k], t)
        BY <3>1, <4>1
      <4>3. QED
        BY <4>2 DEF Answered
    <3>3. CASE i = 1
      <4>1. Moves(Head(todo), t) /\ cached
        BY <1>1, <2>1, <2>5, <3>1, <3>3
      <4>2. StoredEvent(Head(todo)) = Head(todo)
        BY <2>5, <4>1, EventFields DEF Moves
      <4>3. Answers(m, t)
        BY <4>1, <4>2 DEF EventMessage, Answers, Settles, Moves
      <4>4. \E k \in 1..Len(down') : Answers(down'[k], t)
        BY <2>4, <4>3
      <4>5. QED
        BY <4>4 DEF Answered
    <3>4. QED
      BY <3>2, <3>3
  <2>9. QED
    BY <2>2, <2>6, <2>7, <2>8 DEF Answered
<1>12. CASE Welcomed
  <2>1. /\ down # <<>> /\ Head(down).kind = "welcome" /\ down' = Tail(down)
        /\ up' = Append(up, [kind |-> "view.request"])
        /\ UNCHANGED <<synced, cached, pending, todo>>
    BY <1>12 DEF Welcomed, Received, Ask
  <2>2. Answered(t)
    BY <1>1, <1>2, <2>1
  <2>3. ~Answers(Head(down), t)
    BY <2>1 DEF Answers
  <2>4. QED
    BY <1>3, <2>1, <2>2, <2>3, TakenKeepsAnswered
<1>13. CASE EventReceived
  <2>1. ~Gap(Head(down).seq)
    BY <1>13, InTurn DEF EventReceived
  <2>2. /\ down # <<>> /\ Head(down).kind = "event" /\ down' = Tail(down)
        /\ UNCHANGED <<up, synced, cached, todo>>
        /\ pending' = [u \in TokenIds |->
                         IF Settles(Head(down).event, u) THEN None ELSE pending[u]]
    BY <1>13, <2>1 DEF EventReceived, Received
  <2>3. ~Settles(Head(down).event, t) /\ pending[t] # None
    BY <1>1, <2>2
  <2>4. Answered(t)
    BY <1>1, <1>2, <2>2, <2>3
  <2>5. ~Answers(Head(down), t)
    BY <2>2, <2>3 DEF Answers
  <2>6. QED
    BY <2>2, <2>4, <2>5, TakenKeepsAnswered
<1>14. CASE RedactedReceived
  <2>1. ~Gap(Head(down).seq)
    BY <1>14, InTurn DEF RedactedReceived
  <2>2. /\ down # <<>> /\ Head(down).kind = "redacted" /\ down' = Tail(down)
        /\ UNCHANGED <<up, synced, cached, todo, pending>>
    BY <1>14, <2>1 DEF RedactedReceived, Received
  <2>3. Answered(t)
    BY <1>1, <1>2, <2>2
  <2>4. ~Answers(Head(down), t)
    BY <2>2 DEF Answers
  <2>5. QED
    BY <2>2, <2>3, <2>4, TakenKeepsAnswered
<1>15. CASE \E u \in TokenIds, p \in Positions : Release(u, p)
  <2>1. PICK u \in TokenIds, p \in Positions : Release(u, p)
    BY <1>15
  <2> DEFINE r == [kind |-> "token.move", tokenId |-> u, position |-> p]
             m == [kind |-> "dispatch", request |-> r]
  <2>2. /\ UNCHANGED <<todo, down, synced, cached, sock>>
        /\ up' = IF sock = "closed" THEN up ELSE Append(up, m)
        /\ \A v \in TokenIds : v # u => pending'[v] = pending[v]
    BY <2>1 DEF Release, MoveAhead, Remember, TypeOK
  <2>3. sock = "open" /\ m \in UpMessage
    BY <1>1, <2>2 DEF WireShape, UpMessage, Request
  <2>4. up' = Append(up, m)
    BY <2>2, <2>3
  <2>5. CASE u = t
    <3>1. m.kind = "dispatch" /\ Moves(m.request, t)
      BY <2>5 DEF Moves
    <3> HIDE DEF m
    <3>2. Len(up) \in Nat /\ Len(up') = Len(up) + 1 /\ up'[Len(up) + 1] = m
      BY <1>4, <2>3, <2>4, AppendOf
    <3>3. \E k \in 1..Len(up') : up'[k].kind = "dispatch" /\ Moves(up'[k].request, t)
      BY <3>1, <3>2
    <3>4. QED
      BY <3>3 DEF Answered
  <2>6. CASE u # t
    <3>1. Answered(t)
      BY <1>1, <1>2, <2>2, <2>6
    <3> HIDE DEF m
    <3>2. QED
      BY <2>2, <2>3, <2>4, <3>1, AddedKeepsAnswered
  <2>7. QED
    BY <2>5, <2>6
<1>16. CASE LetGo \/ (\E u \in TokenIds : Grab(u)) \/ UNCHANGED vars
  <2>1. UNCHANGED <<up, down, todo, synced, cached, pending>>
    BY <1>16 DEF vars, LetGo, Grab
  <2>2. QED
    BY <1>1, <1>2, <2>1 DEF Answered
<1>17. QED
  BY <1>5, <1>6, <1>7, <1>8, <1>9, <1>10, <1>11, <1>12, <1>13, <1>14, <1>15, <1>16
     DEF Next, Server, Receive

LEMMA InitInv ==
  ASSUME Init
  PROVE  IInv
<1> USE DEF Init
<1>1. TypeOK
  <2>1. Seed \in State /\ EmptyBoard \in State
    BY MirrorAssumption DEF EmptyBoard, State
  <2>2. history \in Seq(State) /\ history # <<>> /\ mirror \in State
    BY <2>1
  <2>3. todo \in Seq(Intent) /\ up \in Seq(UpMessage) /\ down \in Seq(DownMessage)
    OBVIOUS
  <2>4. pending \in [TokenIds -> Positions \cup {None}] /\ viewed \in SceneIds \cup {None}
    BY DEF NoPending
  <2>5. cached \in BOOLEAN
    OBVIOUS
  <2>6. synced \in BOOLEAN
    OBVIOUS
  <2>7. sock \in {"closed", "handshake", "open"}
    OBVIOUS
  <2>8. lastEventSeq \in Nat /\ held \in TokenIds \cup {None} /\ moves \in Nat /\ drops \in Nat
    OBVIOUS
  <2>9. QED
    BY <2>2, <2>3, <2>4, <2>5, <2>6, <2>7, <2>8 DEF TypeOK
<1>2. seq = 0 /\ down = <<>> /\ Len(down) = 0 /\ synced = FALSE
  BY DEF seq
<1>3. WireShape
  BY <1>2 DEF WireShape
<1>4. StampsInOrder
  BY <1>2 DEF StampsInOrder
<1>5. MessagesTrue
  BY <1>2 DEF MessagesTrue
<1>6. BoardsWhole
  BY <1>2, MirrorAssumption DEF BoardsWhole, BoardAt, Free
<1>7. MirrorInStep /\ PermissionsInStep
  BY <1>2 DEF MirrorInStep, PermissionsInStep, Following
<1>8. PendingHasToken
  BY DEF PendingHasToken, NoPending
<1>9. PendingIsAnswered
  BY <1>2 DEF PendingIsAnswered
<1>10. QED
  BY <1>1, <1>3, <1>4, <1>5, <1>6, <1>7, <1>8, <1>9 DEF IInv

\* The connection, the boards, the mirror and the pending moves stay in the
\* relations that IInv names.
THEOREM Inductive == Spec => []IInv
<1>1. Init => IInv
  BY InitInv
<1>2. IInv /\ [Next]_vars => IInv'
  <2> SUFFICES ASSUME IInv, [Next]_vars PROVE IInv'
    OBVIOUS
  <2>1. /\ TypeOK /\ WireShape /\ StampsInOrder /\ MessagesTrue /\ BoardsWhole
        /\ PendingHasToken /\ PendingIsAnswered /\ InStep
    BY InStepIff DEF IInv
  <2>2. TypeOK' /\ WireShape' /\ StampsInOrder'
    BY <2>1, StepType, StepWire, StepStamps
  <2>3. MessagesTrue' /\ BoardsWhole'
    BY <2>1, StepMessages, StepBoards
  <2>4. PendingHasToken' /\ PendingIsAnswered'
    BY <2>1, StepPendingHasToken, StepPending
  <2>5. InStep'
    BY <2>1, StepInStep
  <2>6. MirrorInStep' /\ PermissionsInStep'
    BY <2>5, InStepIff, PTL
  <2>7. QED
    BY <2>2, <2>3, <2>4, <2>6 DEF IInv
<1>3. QED
  BY <1>1, <1>2, PTL DEF Spec

\* Whatever is lost or late, a mirror that has had a view over its connection
\* is, but for the pending moves, the board the server had at the number the
\* client has reached.
THEOREM MirrorFollows == Spec => []MirrorInStep
<1>1. IInv => MirrorInStep
  BY DEF IInv
<1>2. QED
  BY <1>1, Inductive, PTL

\* The client's gate on dragging is never wider than the server's.
THEOREM GateFollows == Spec => []GateIsSound
<1>1. IInv => GateIsSound
  <2> SUFFICES ASSUME IInv, Following, NEW t \in TokenIds, NEW p \in Positions, MayDrag(t)
               PROVE  CanMoveToken(Base, OwnArgs,
                        [kind |-> "token.move", tokenId |-> t, position |-> p])
    BY DEF GateIsSound
  <2>1. /\ TokenExists(mirror, t) /\ TokenExists(Base, t)
        /\ mirror.tokens[t].actorId = Base.tokens[t].actorId
    BY DEF MayDrag, IInv, MirrorInStep
  <2>2. mirror.tokens[t].actorId \in ActorIds
    BY <2>1 DEF IInv, TypeOK, State, Token, TokenExists
  <2>3. Controls(mirror, Me, mirror.tokens[t].actorId)
          => Controls(Base, Me, Base.tokens[t].actorId)
    BY <2>1, <2>2 DEF IInv, PermissionsInStep, Controls
  <2>4. QED
    BY <2>1, <2>3 DEF MayDrag, CanMoveToken, OwnArgs
<1>2. QED
  BY <1>1, Inductive, PTL

\* When all messages are read and served, nothing is pending and the tokens
\* on the canvas are where the server has them.
THEOREM QuietMirror == Spec => []SettledMirror
<1>1. IInv => SettledMirror
  <2> SUFFICES ASSUME IInv, Quiet, cached
               PROVE  /\ pending = NoPending
                      /\ \A t \in TokenIds : TokenExists(mirror, t) =>
                           /\ TokenExists(state, t)
                           /\ mirror.tokens[t].position = state.tokens[t].position
    BY DEF SettledMirror
  <2>1. sock = "open" /\ up = <<>> /\ down = <<>> /\ todo = <<>>
    BY DEF Quiet, Free
  <2>2. synced
    BY <2>1 DEF IInv, WireShape
  <2>3. Base = state
    BY <2>1, <2>2 DEF IInv, StampsInOrder, Base, state
  <2>4. \A t \in TokenIds : pending[t] = None
    BY <2>1, <2>2 DEF IInv, PendingIsAnswered
  <2>5. pending = NoPending
    BY <2>4 DEF IInv, TypeOK, NoPending
  <2>6. QED
    BY <2>2, <2>3, <2>4, <2>5 DEF IInv, MirrorInStep, Following, Confirmed
<1>2. QED
  BY <1>1, Inductive, PTL

\* Across lost connections and reopened engines the client never meets the
\* gap that handleEvent looks for.
THEOREM EventsInTurn == Spec => []NoGap
<1>1. IInv => NoGap
  BY InTurn DEF IInv, NoGap
<1>2. QED
  BY <1>1, Inductive, PTL

============================================================================
