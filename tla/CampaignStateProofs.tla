------------------------ MODULE CampaignStateProofs ------------------------
(***************************************************************************)
(* Lemmas about the pure operators of CampaignState: an intent takes a     *)
(* state to a state, and leaves an event of the same kind.                 *)
(***************************************************************************)
EXTENDS CampaignState, FiniteSetTheorems, SequenceTheorems, NaturalsInduction, TLAPS

\* The fields of a request follow from its kind.
LEMMA RequestFields ==
  ASSUME NEW r \in Request
  PROVE  /\ r.kind \in {"token.move", "token.create", "token.delete",
                        "token.linkToActor", "token.replaceData"}
              => r.tokenId \in TokenIds
         /\ r.kind \in {"token.move", "token.create"}
              => r.position \in Positions
         /\ r.kind \in {"token.create", "token.linkToActor", "actor.create",
                        "actor.delete", "actor.linkSeat", "actor.replaceData"}
              => r.actorId \in ActorIds
         /\ r.kind \in {"token.create", "scene.create", "scene.delete",
                        "scene.setActive", "scene.replaceData"}
              => r.sceneId \in SceneIds
         /\ r.kind \in {"token.create", "actor.create", "scene.create",
                        "actor.replaceData", "token.replaceData",
                        "scene.replaceData"}
              => r.data \in Data
         /\ r.kind = "token.create" => r.hidden \in BOOLEAN
         /\ r.kind = "actor.create"
              => r.seatPermissions \in [Seats -> Permissions]
         /\ r.kind = "actor.linkSeat"
              => r.seatId \in Seats /\ r.permission \in Permissions
BY DEF Request, Permissions

\* Every intent takes a state of the campaign to a state of the campaign.
LEMMA MutateType ==
  ASSUME NEW st \in State, NEW i \in Intent
  PROVE  Mutate(st, i) \in State
<1> USE RequestFields DEF Intent
<1>1. CASE i.kind = "token.move"
  BY <1>1 DEF State, Token, Mutate, MoveToken
<1>2. CASE i.kind = "token.create"
  BY <1>2 DEF State, Token, Mutate, CreateToken
<1>3. CASE i.kind = "token.delete"
  BY <1>3 DEF State, Mutate, DeleteToken
<1>4. CASE i.kind = "token.linkToActor"
  BY <1>4 DEF State, Token, Mutate, LinkToken
<1>5. CASE i.kind = "token.replaceData"
  BY <1>5 DEF State, Token, Mutate, ReplaceTokenData
<1>6. CASE i.kind = "actor.create"
  BY <1>6 DEF State, Actor, Mutate, CreateActor
<1>7. CASE i.kind = "actor.delete"
  BY <1>7 DEF State, Mutate, DeleteActor
<1>8. CASE i.kind = "actor.linkSeat"
  BY <1>8 DEF State, Actor, Mutate, LinkSeat
<1>9. CASE i.kind = "actor.replaceData"
  BY <1>9 DEF State, Actor, Mutate, ReplaceActorData
<1>10. CASE i.kind = "scene.create"
  BY <1>10 DEF State, Mutate, CreateScene
<1>11. CASE i.kind = "scene.delete"
  BY <1>11 DEF State, Mutate, DeleteScene
<1>12. CASE i.kind = "scene.setActive"
  BY <1>12 DEF State, Mutate, ActivateScene
<1>13. CASE i.kind = "scene.replaceData"
  BY <1>13 DEF State, Mutate, ReplaceSceneData
<1>14. CASE i.kind \in {"chat.send", "dice.roll"}
  BY <1>14 DEF Mutate
<1>15. QED
  BY <1>1, <1>2, <1>3, <1>4, <1>5, <1>6, <1>7, <1>8, <1>9, <1>10, <1>11,
     <1>12, <1>13, <1>14 DEF Request

----------------------------------------------------------------------------
(* Boards *)

\* Two states agree on what the log's events carry.
SameBoard(st1, st2) ==
  /\ st1.activeSceneId = st2.activeSceneId
  /\ \A s \in SceneIds : SceneExists(st1, s) <=> SceneExists(st2, s)
  /\ \A a \in ActorIds : ActorExists(st1, a) <=> ActorExists(st2, a)
  /\ \A t \in TokenIds :
       /\ TokenExists(st1, t) <=> TokenExists(st2, t)
       /\ TokenExists(st1, t) =>
            /\ st1.tokens[t].actorId = st2.tokens[t].actorId
            /\ st1.tokens[t].sceneId = st2.tokens[t].sceneId
            /\ st1.tokens[t].position = st2.tokens[t].position

LEMMA SameBoardIff ==
  ASSUME NEW st1, NEW st2
  PROVE  Board(st1) = Board(st2) <=> SameBoard(st1, st2)
<1> DEFINE scenes(st) == {s \in SceneIds : SceneExists(st, s)}
           actors(st) == {a \in ActorIds : ActorExists(st, a)}
           place(st, t) == [actorId  |-> st.tokens[t].actorId,
                            sceneId  |-> st.tokens[t].sceneId,
                            position |-> st.tokens[t].position]
           tokens(st) == [t \in {u \in TokenIds : TokenExists(st, u)} |-> place(st, t)]
<1>1. Board(st1) = Board(st2) <=> /\ st1.activeSceneId = st2.activeSceneId
                                  /\ scenes(st1) = scenes(st2)
                                  /\ actors(st1) = actors(st2)
                                  /\ tokens(st1) = tokens(st2)
  <2> HIDE DEF scenes, actors, tokens
  <2>1. \A st : Board(st) = [activeSceneId |-> st.activeSceneId, scenes |-> scenes(st),
                             actors |-> actors(st), tokens |-> tokens(st)]
    BY DEF Board, scenes, actors, tokens
  <2>2. QED
    BY <2>1
<1>2. scenes(st1) = scenes(st2)
        <=> \A s \in SceneIds : SceneExists(st1, s) <=> SceneExists(st2, s)
  OBVIOUS
<1>3. actors(st1) = actors(st2)
        <=> \A a \in ActorIds : ActorExists(st1, a) <=> ActorExists(st2, a)
  OBVIOUS
<1>4. ASSUME NEW t
      PROVE  place(st1, t) = place(st2, t)
               <=> /\ st1.tokens[t].actorId = st2.tokens[t].actorId
                   /\ st1.tokens[t].sceneId = st2.tokens[t].sceneId
                   /\ st1.tokens[t].position = st2.tokens[t].position
  OBVIOUS
<1>5. tokens(st1) = tokens(st2)
        <=> \A t \in TokenIds :
              /\ TokenExists(st1, t) <=> TokenExists(st2, t)
              /\ TokenExists(st1, t) => place(st1, t) = place(st2, t)
  <2> HIDE DEF place
  <2>1. ASSUME tokens(st1) = tokens(st2), NEW t \in TokenIds
        PROVE  /\ TokenExists(st1, t) <=> TokenExists(st2, t)
               /\ TokenExists(st1, t) => place(st1, t) = place(st2, t)
    <3>1. DOMAIN tokens(st1) = DOMAIN tokens(st2) /\ tokens(st1)[t] = tokens(st2)[t]
      BY <2>1
    <3>2. QED
      BY <3>1
  <2>2. QED
    BY <2>1
<1>6. QED
  BY <1>1, <1>2, <1>3, <1>4, <1>5 DEF SameBoard

\* Whether a board has its integrity can be told from the board alone.
LEMMA SameIntegrity ==
  ASSUME NEW st1 \in State, NEW st2 \in State, SameBoard(st1, st2), Integrity(st1)
  PROVE  Integrity(st2)
<1>1. \A t \in TokenIds : TokenExists(st1, t) => st1.tokens[t].sceneId \in SceneIds
  BY DEF State, Token, TokenExists
<1>2. QED
  BY <1>1 DEF SameBoard, Integrity, SceneExists, State

SetToken(st, k, v) == [st EXCEPT !.tokens[k] = v]
SetActor(st, k, v) == [st EXCEPT !.actors[k] = v]
SetScene(st, k, v) == [st EXCEPT !.scenes[k] = v]

\* Boards stay the same when the same entity changes alike in both states.
LEMMA TokenChange ==
  ASSUME NEW st1 \in State, NEW st2 \in State, SameBoard(st1, st2),
         NEW k \in TokenIds, NEW v1, NEW v2, v1 = None <=> v2 = None,
         v1 # None => /\ v1.actorId = v2.actorId
                      /\ v1.sceneId = v2.sceneId
                      /\ v1.position = v2.position
  PROVE  SameBoard(SetToken(st1, k, v1), SetToken(st2, k, v2))
<1> DEFINE m1 == SetToken(st1, k, v1)
           m2 == SetToken(st2, k, v2)
<1>1. /\ m1.activeSceneId = st1.activeSceneId /\ m2.activeSceneId = st2.activeSceneId
      /\ m1.scenes = st1.scenes /\ m2.scenes = st2.scenes
      /\ m1.actors = st1.actors /\ m2.actors = st2.actors
      /\ m1.tokens[k] = v1 /\ m2.tokens[k] = v2
      /\ \A t \in TokenIds : t # k => m1.tokens[t] = st1.tokens[t]
                                      /\ m2.tokens[t] = st2.tokens[t]
  BY DEF State, SetToken
<1> HIDE DEF m1, m2
<1>2. SameBoard(m1, m2)
  BY <1>1 DEF SameBoard, SceneExists, ActorExists, TokenExists
<1>3. QED
  BY <1>2 DEF m1, m2

LEMMA ActorChange ==
  ASSUME NEW st1 \in State, NEW st2 \in State, SameBoard(st1, st2),
         NEW k \in ActorIds, NEW v1, NEW v2, v1 = None <=> v2 = None
  PROVE  SameBoard(SetActor(st1, k, v1), SetActor(st2, k, v2))
<1> DEFINE m1 == SetActor(st1, k, v1)
           m2 == SetActor(st2, k, v2)
<1>1. /\ m1.activeSceneId = st1.activeSceneId /\ m2.activeSceneId = st2.activeSceneId
      /\ m1.scenes = st1.scenes /\ m2.scenes = st2.scenes
      /\ m1.tokens = st1.tokens /\ m2.tokens = st2.tokens
      /\ m1.actors[k] = v1 /\ m2.actors[k] = v2
      /\ \A a \in ActorIds : a # k => m1.actors[a] = st1.actors[a]
                                      /\ m2.actors[a] = st2.actors[a]
  BY DEF State, SetActor
<1> HIDE DEF m1, m2
<1>2. SameBoard(m1, m2)
  BY <1>1 DEF SameBoard, SceneExists, ActorExists, TokenExists
<1>3. QED
  BY <1>2 DEF m1, m2

LEMMA SceneChange ==
  ASSUME NEW st1 \in State, NEW st2 \in State, SameBoard(st1, st2),
         NEW k \in SceneIds, NEW v1, NEW v2, v1 = None <=> v2 = None
  PROVE  SameBoard(SetScene(st1, k, v1), SetScene(st2, k, v2))
<1> DEFINE m1 == SetScene(st1, k, v1)
           m2 == SetScene(st2, k, v2)
<1>1. /\ m1.activeSceneId = st1.activeSceneId /\ m2.activeSceneId = st2.activeSceneId
      /\ m1.actors = st1.actors /\ m2.actors = st2.actors
      /\ m1.tokens = st1.tokens /\ m2.tokens = st2.tokens
      /\ m1.scenes[k] = v1 /\ m2.scenes[k] = v2
      /\ \A s \in SceneIds : s # k => m1.scenes[s] = st1.scenes[s]
                                      /\ m2.scenes[s] = st2.scenes[s]
  BY DEF State, SetScene
<1> HIDE DEF m1, m2
<1>2. SameBoard(m1, m2)
  BY <1>1 DEF SameBoard, SceneExists, ActorExists, TokenExists
<1>3. QED
  BY <1>2 DEF m1, m2

\* Applying the event an intent leaves does to the board what the intent did.
LEMMA ReplayKeepsBoard ==
  ASSUME NEW st1 \in State, NEW st2 \in State, SameBoard(st1, st2), NEW i \in Intent
  PROVE  SameBoard(Mutate(st1, i), Mutate(st2, StoredEvent(i)))
<1> USE RequestFields DEF Intent
<1> DEFINE t1 == st1.tokens[i.tokenId]
           t2 == st2.tokens[i.tokenId]
           c1 == st1.actors[i.actorId]
           c2 == st2.actors[i.actorId]
<1>0. ASSUME i.kind \in {"token.move", "token.linkToActor", "token.replaceData"}
      PROVE  /\ t1 = None <=> t2 = None
             /\ t1 # None => /\ t1 \in Token /\ t2 \in Token
                             /\ t1.actorId = t2.actorId
                             /\ t1.sceneId = t2.sceneId
                             /\ t1.position = t2.position
  BY <1>0 DEF SameBoard, TokenExists, State
<1>1. CASE i.kind = "token.move"
  <2> DEFINE v(t) == IF t = None THEN None ELSE [t EXCEPT !.position = i.position]
  <2>1. /\ v(t1) = None <=> v(t2) = None
        /\ v(t1) # None => /\ v(t1).actorId = v(t2).actorId
                           /\ v(t1).sceneId = v(t2).sceneId
                           /\ v(t1).position = v(t2).position
    BY <1>0, <1>1, EntityAssumption DEF Token
  <2>2. /\ Mutate(st1, i) = SetToken(st1, i.tokenId, v(t1))
        /\ Mutate(st2, StoredEvent(i)) = SetToken(st2, i.tokenId, v(t2))
    BY <1>1 DEF StoredEvent, Mutate, MoveToken, SetToken
  <2> HIDE DEF v, t1, t2
  <2>3. QED
    BY <1>1, <2>1, <2>2, TokenChange
<1>2. CASE i.kind = "token.create"
  <2> DEFINE v(h, x) == [actorId |-> i.actorId, sceneId |-> i.sceneId,
                         position |-> i.position, hidden |-> h, data |-> x]
  <2>1. v(i.hidden, i.data) \in Token /\ v(FALSE, NoData) \in Token
    BY <1>2, DataAssumption DEF Token
  <2>2. /\ Mutate(st1, i) = SetToken(st1, i.tokenId, v(i.hidden, i.data))
        /\ Mutate(st2, StoredEvent(i)) = SetToken(st2, i.tokenId, v(FALSE, NoData))
    BY <1>2 DEF StoredEvent, Mutate, CreateToken, SetToken, Request
  <2>3. /\ v(i.hidden, i.data).actorId = v(FALSE, NoData).actorId
        /\ v(i.hidden, i.data).sceneId = v(FALSE, NoData).sceneId
        /\ v(i.hidden, i.data).position = v(FALSE, NoData).position
    OBVIOUS
  <2> HIDE DEF v
  <2>4. QED
    BY <1>2, <2>1, <2>2, <2>3, TokenChange, EntityAssumption
<1>3. CASE i.kind = "token.delete"
  <2>1. /\ Mutate(st1, i) = SetToken(st1, i.tokenId, None)
        /\ Mutate(st2, StoredEvent(i)) = SetToken(st2, i.tokenId, None)
    BY <1>3 DEF StoredEvent, Mutate, DeleteToken, SetToken
  <2>2. QED
    BY <1>3, <2>1, TokenChange
<1>4. CASE i.kind = "token.linkToActor"
  <2> DEFINE v(t) == IF t = None THEN None ELSE [t EXCEPT !.actorId = i.actorId]
  <2>1. /\ v(t1) = None <=> v(t2) = None
        /\ v(t1) # None => /\ v(t1).actorId = v(t2).actorId
                           /\ v(t1).sceneId = v(t2).sceneId
                           /\ v(t1).position = v(t2).position
    BY <1>0, <1>4, EntityAssumption DEF Token
  <2>2. /\ Mutate(st1, i) = SetToken(st1, i.tokenId, v(t1))
        /\ Mutate(st2, StoredEvent(i)) = SetToken(st2, i.tokenId, v(t2))
    BY <1>4 DEF StoredEvent, Mutate, LinkToken, SetToken
  <2> HIDE DEF v, t1, t2
  <2>3. QED
    BY <1>4, <2>1, <2>2, TokenChange
<1>5. CASE i.kind = "token.replaceData"
  <2> DEFINE v(t) == IF t = None THEN None ELSE [t EXCEPT !.data = i.data]
  <2>1. /\ v(t1) = None <=> v(t2) = None
        /\ v(t1) # None => /\ v(t1).actorId = v(t2).actorId
                           /\ v(t1).sceneId = v(t2).sceneId
                           /\ v(t1).position = v(t2).position
    BY <1>0, <1>5, EntityAssumption DEF Token
  <2>2. /\ Mutate(st1, i) = SetToken(st1, i.tokenId, v(t1))
        /\ Mutate(st2, StoredEvent(i)) = SetToken(st2, i.tokenId, v(t2))
    BY <1>5 DEF StoredEvent, Mutate, ReplaceTokenData, SetToken
  <2> HIDE DEF v, t1, t2
  <2>3. QED
    BY <1>5, <2>1, <2>2, TokenChange
<1>6. CASE i.kind = "actor.create"
  <2> DEFINE v(q, x) == [seatPermissions |-> q, data |-> x]
             none == [s \in Seats |-> "none"]
  <2>1. v(i.seatPermissions, i.data) # None /\ v(none, NoData) # None
    <3>1. none \in [Seats -> Permissions]
      BY DEF Permissions
    <3>2. v(i.seatPermissions, i.data) \in Actor /\ v(none, NoData) \in Actor
      BY <1>6, <3>1, DataAssumption DEF Actor
    <3>3. QED
      BY <3>2, EntityAssumption
  <2>2. /\ Mutate(st1, i) = SetActor(st1, i.actorId, v(i.seatPermissions, i.data))
        /\ Mutate(st2, StoredEvent(i)) = SetActor(st2, i.actorId, v(none, NoData))
    BY <1>6 DEF StoredEvent, Mutate, CreateActor, SetActor, Request
  <2> HIDE DEF v, none
  <2>3. QED
    BY <1>6, <2>1, <2>2, ActorChange
<1>7. CASE i.kind = "actor.delete"
  <2>1. /\ Mutate(st1, i) = SetActor(st1, i.actorId, None)
        /\ Mutate(st2, StoredEvent(i)) = SetActor(st2, i.actorId, None)
    BY <1>7 DEF StoredEvent, Mutate, DeleteActor, SetActor
  <2>2. QED
    BY <1>7, <2>1, ActorChange
<1>8. ASSUME i.kind \in {"actor.linkSeat", "actor.replaceData"}
      PROVE  /\ c1 = None <=> c2 = None
             /\ c1 # None => c1 \in Actor /\ c2 \in Actor
  BY <1>8 DEF SameBoard, ActorExists, State
<1>9. CASE i.kind = "actor.linkSeat"
  <2> DEFINE v(c) == IF c = None THEN None
                     ELSE [c EXCEPT !.seatPermissions[i.seatId] = i.permission]
  <2>1. v(c1) = None <=> v(c2) = None
    BY <1>8, <1>9, EntityAssumption DEF Actor
  <2>2. /\ Mutate(st1, i) = SetActor(st1, i.actorId, v(c1))
        /\ Mutate(st2, StoredEvent(i)) = SetActor(st2, i.actorId, v(c2))
    BY <1>9 DEF StoredEvent, Mutate, LinkSeat, SetActor
  <2> HIDE DEF v, c1, c2
  <2>3. QED
    BY <1>9, <2>1, <2>2, ActorChange
<1>10. CASE i.kind = "actor.replaceData"
  <2> DEFINE v(c) == IF c = None THEN None ELSE [c EXCEPT !.data = i.data]
  <2>1. v(c1) = None <=> v(c2) = None
    BY <1>8, <1>10, EntityAssumption DEF Actor
  <2>2. /\ Mutate(st1, i) = SetActor(st1, i.actorId, v(c1))
        /\ Mutate(st2, StoredEvent(i)) = SetActor(st2, i.actorId, v(c2))
    BY <1>10 DEF StoredEvent, Mutate, ReplaceActorData, SetActor
  <2> HIDE DEF v, c1, c2
  <2>3. QED
    BY <1>10, <2>1, <2>2, ActorChange
<1>11. CASE i.kind = "scene.create"
  <2>1. /\ Mutate(st1, i) = SetScene(st1, i.sceneId, i.data)
        /\ Mutate(st2, StoredEvent(i)) = SetScene(st2, i.sceneId, NoData)
    BY <1>11 DEF StoredEvent, Mutate, CreateScene, SetScene, Request
  <2>2. i.data # None /\ NoData # None
    BY <1>11, DataAssumption
  <2>3. QED
    BY <1>11, <2>1, <2>2, SceneChange
<1>12. CASE i.kind = "scene.replaceData"
  <2> DEFINE v(c) == IF c = None THEN None ELSE i.data
  <2>1. v(st1.scenes[i.sceneId]) = None <=> v(st2.scenes[i.sceneId]) = None
    BY <1>12, DataAssumption DEF SameBoard, SceneExists
  <2>2. /\ Mutate(st1, i) = SetScene(st1, i.sceneId, v(st1.scenes[i.sceneId]))
        /\ Mutate(st2, StoredEvent(i)) =
             SetScene(st2, i.sceneId, v(st2.scenes[i.sceneId]))
    BY <1>12 DEF StoredEvent, Mutate, ReplaceSceneData, SetScene
  <2> HIDE DEF v
  <2>3. QED
    BY <1>12, <2>1, <2>2, SceneChange
<1>13. CASE i.kind = "scene.setActive"
  <2>1. StoredEvent(i) = i
    BY <1>13 DEF StoredEvent
  <2>2. QED
    BY <1>13, <2>1 DEF Mutate, ActivateScene, SameBoard, SceneExists,
       ActorExists, TokenExists, State
<1>14. CASE i.kind \in {"chat.send", "dice.roll"}
  BY <1>14 DEF StoredEvent, Mutate
<1>15. CASE i.kind = "scene.delete"
  <2> DEFINE m1 == Mutate(st1, i)
             m2 == Mutate(st2, StoredEvent(i))
             next(x) == IF x = i.sceneId THEN None ELSE x
  <2>1. /\ m1.activeSceneId = next(st1.activeSceneId)
        /\ m2.activeSceneId = next(st2.activeSceneId)
        /\ m1.tokens = st1.tokens /\ m2.tokens = st2.tokens
        /\ m1.actors = st1.actors /\ m2.actors = st2.actors
        /\ m1.scenes[i.sceneId] = None /\ m2.scenes[i.sceneId] = None
        /\ \A s \in SceneIds : s # i.sceneId => m1.scenes[s] = st1.scenes[s]
                                               /\ m2.scenes[s] = st2.scenes[s]
    BY <1>15 DEF StoredEvent, Mutate, DeleteScene, State
  <2> HIDE DEF m1, m2, next
  <2>2. SameBoard(m1, m2)
    BY <2>1 DEF SameBoard, SceneExists, ActorExists, TokenExists
  <2>3. QED
    BY <2>2 DEF m1, m2
<1>16. QED
  BY <1>1, <1>2, <1>3, <1>4, <1>5, <1>6, <1>7, <1>9, <1>10, <1>11, <1>12,
     <1>13, <1>14, <1>15 DEF Request

----------------------------------------------------------------------------
(* Sequences of intents *)

\* The event that an intent leaves is an intent of the same kind.
LEMMA StoredEventType ==
  ASSUME NEW i \in Intent
  PROVE  StoredEvent(i) \in Intent
<1> USE RequestFields, DataAssumption DEF Intent
<1>1. CASE i.kind = "token.create"
  BY <1>1 DEF StoredEvent, Request
<1>2. CASE i.kind = "scene.create"
  BY <1>2 DEF StoredEvent, Request
<1>3. CASE i.kind = "actor.create"
  BY <1>3 DEF StoredEvent, Request, Permissions
<1>4. CASE i.kind \notin {"token.create", "scene.create", "actor.create"}
  BY <1>4 DEF StoredEvent
<1>5. QED
  BY <1>1, <1>2, <1>3, <1>4

\* A move and its announcement do not collide: both stay, in their order.
LEMMA MergeKeepsMove ==
  ASSUME NEW r, r.kind = "token.move", NEW chat, chat.kind = "chat.send"
  PROVE  mergeIntents(<<r, chat>>) = <<r, chat>>
<1> DEFINE flat == <<r, chat>>
           S == Kept(flat)
<1>1. DOMAIN flat = {1, 2} /\ flat[1] = r /\ flat[2] = chat
  OBVIOUS
<1>2. S = {1, 2}
  BY <1>1 DEF Kept, Collides
<1> HIDE DEF flat, S
<1>3. Cardinality(S) = 2
  <2>1. S = {1} \cup {2} /\ 2 \notin {1}
    BY <1>2
  <2>2. IsFiniteSet({1}) /\ Cardinality({1}) = 1
    BY FS_Singleton
  <2>3. Cardinality({1} \cup {2}) = Cardinality({1}) + 1
    BY <2>1, <2>2, FS_AddElement
  <2>4. QED
    BY <2>1, <2>2, <2>3
<1>4. {m \in S : m < 1} = {} /\ {m \in S : m < 2} = {1}
  BY <1>2
<1>5. Cardinality({m \in S : m < 1}) = 0 /\ Cardinality({m \in S : m < 2}) = 1
  BY <1>4, FS_EmptySet, FS_Singleton
<1> DEFINE Nth(k) == CHOOSE n \in S : Cardinality({m \in S : m < n}) = k - 1
<1>6. Nth(1) = 1 /\ Nth(2) = 2
  <2>1. \A n \in S : Cardinality({m \in S : m < n}) = n - 1
    BY <1>2, <1>5
  <2> HIDE DEF S
  <2>2. \A k \in {1, 2} : \A n \in S : n - 1 = k - 1 => n = k
    BY <1>2
  <2>3. QED
    BY <1>2, <2>1, <2>2
<1> HIDE DEF Nth
<1>7. mergeIntents(flat) = [k \in 1..Cardinality(S) |-> flat[Nth(k)]]
  BY DEF mergeIntents, S, Nth
<1>8. [k \in 1..Cardinality(S) |-> flat[Nth(k)]] = flat
  <2>1. 1..Cardinality(S) = {1, 2}
    BY <1>3
  <2>2. flat = [k \in {1, 2} |-> flat[k]]
    BY DEF flat
  <2>3. \A k \in {1, 2} : flat[Nth(k)] = flat[k]
    BY <1>6
  <2>4. QED
    BY <2>1, <2>2, <2>3
<1>9. QED
  BY <1>7, <1>8 DEF flat

\* What the two resolvers of a move return together.
LEMMA MoveIntents ==
  ASSUME NEW st, NEW r, NEW rulesets, r.kind = "token.move", "dnd" \in rulesets,
         NEW todo \in IntentsOf(st, r, rulesets)
  PROVE  todo = <<r, [kind |-> "chat.send"]>>
<1>1. todo = mergeIntents(<<r, [kind |-> "chat.send"]>>)
  BY DEF IntentsOf
<1>2. QED
  BY <1>1, MergeKeepsMove

\* What a resolver returns is a non-empty sequence of intents.
LEMMA IntentsType ==
  ASSUME NEW st \in State, NEW r \in Request, NEW rulesets,
         NEW todo \in IntentsOf(st, r, rulesets)
  PROVE  todo \in Seq(Intent) /\ Len(todo) > 0
<1>1. CASE r.kind = "scene.delete"
  <2>1. PICK q \in Orders(TokensIn(st, r.sceneId)) : todo = Cascade(r, q)
    BY <1>1 DEF IntentsOf
  <2>2. IsFiniteSet(TokensIn(st, r.sceneId))
    BY FS_Subset, IdsAssumption DEF TokensIn
  <2>3. q \in Seq(TokenIds)
    <3>1. Cardinality(TokensIn(st, r.sceneId)) \in Nat
      BY <2>2, FS_CardinalityType
    <3>2. q \in [1..Cardinality(TokensIn(st, r.sceneId)) -> TokenIds]
      BY <2>1 DEF Orders, TokensIn
    <3>3. QED
      BY <3>1, <3>2, SeqDef
  <2>4. [i \in 1..Len(q) |-> DeleteTokenIntent(q[i])] \in Seq(Intent)
    BY <2>3 DEF DeleteTokenIntent, Intent, Request
  <2>5. QED
    BY <2>1, <2>4 DEF Cascade, Intent
<1>2. CASE r.kind = "token.move" /\ "dnd" \in rulesets
  <2>1. todo = <<r, [kind |-> "chat.send"]>>
    BY <1>2, MoveIntents
  <2>2. [kind |-> "chat.send"] \in Intent /\ r \in Intent
    BY DEF Intent, Request
  <2>3. QED
    BY <2>1, <2>2
<1>3. CASE ~(r.kind = "scene.delete") /\ ~(r.kind = "token.move" /\ "dnd" \in rulesets)
  BY <1>3 DEF IntentsOf, Intent
<1>4. QED
  BY <1>1, <1>2, <1>3

----------------------------------------------------------------------------
(* The board keeps its integrity *)

\* A request that its resolver let through, other than scene.delete, keeps
\* every token and the active scene on scenes that exist.
LEMMA ResolvedKeepsIntegrity ==
  ASSUME NEW st \in State, NEW r \in Request, NEW args, Integrity(st),
         Resolves(st, args, r), r.kind # "scene.delete"
  PROVE  Integrity(Mutate(st, r))
<1> USE RequestFields, DataAssumption, EntityAssumption
<1> USE DEF Integrity, TokenExists, SceneExists, State
<1>1. CASE r.kind \in {"token.move", "token.linkToActor", "token.replaceData"}
  <2>1. Mutate(st, r).scenes = st.scenes
        /\ Mutate(st, r).activeSceneId = st.activeSceneId
    BY <1>1 DEF Mutate, MoveToken, LinkToken, ReplaceTokenData
  <2>2. ASSUME NEW t \in TokenIds
        PROVE  /\ Mutate(st, r).tokens[t] # None <=> st.tokens[t] # None
               /\ st.tokens[t] # None =>
                    Mutate(st, r).tokens[t].sceneId = st.tokens[t].sceneId
    <3>1. st.tokens[t] # None => st.tokens[t] \in Token
      OBVIOUS
    <3>2. CASE r.kind = "token.move"
      BY <3>1, <3>2 DEF Mutate, MoveToken, Token
    <3>3. CASE r.kind = "token.linkToActor"
      BY <3>1, <3>3 DEF Mutate, LinkToken, Token
    <3>4. CASE r.kind = "token.replaceData"
      BY <3>1, <3>4 DEF Mutate, ReplaceTokenData, Token
    <3>5. QED
      BY <1>1, <3>2, <3>3, <3>4
  <2>3. QED
    BY <2>1, <2>2
<1>2. CASE r.kind = "token.create"
  <2>1. SceneExists(st, r.sceneId)
    BY <1>2 DEF Resolves, CanMoveToken, CanSpeak, CanEditTokens, CanEditActors,
                CanEditScenes
  <2>2. QED
    BY <1>2, <2>1 DEF Mutate, CreateToken
<1>3. CASE r.kind = "token.delete"
  BY <1>3 DEF Mutate, DeleteToken
<1>4. CASE r.kind = "actor.create"
  BY <1>4 DEF Mutate, CreateActor
<1>5. CASE r.kind = "actor.delete"
  BY <1>5 DEF Mutate, DeleteActor
<1>6. CASE r.kind = "actor.linkSeat"
  BY <1>6 DEF Mutate, LinkSeat
<1>7. CASE r.kind = "actor.replaceData"
  BY <1>7 DEF Mutate, ReplaceActorData
<1>8. CASE r.kind = "scene.create"
  BY <1>8 DEF Mutate, CreateScene, Token
<1>9. CASE r.kind = "scene.setActive"
  <2>1. SceneExists(st, r.sceneId)
    BY <1>9 DEF Resolves, CanMoveToken, CanSpeak, CanEditTokens, CanEditActors,
                CanEditScenes
  <2>2. QED
    BY <1>9, <2>1 DEF Mutate, ActivateScene
<1>10. CASE r.kind = "scene.replaceData"
  BY <1>10 DEF Mutate, ReplaceSceneData, Token
<1>11. CASE r.kind \in {"chat.send", "dice.roll"}
  BY <1>11 DEF Mutate
<1>12. QED
  BY <1>1, <1>2, <1>3, <1>4, <1>5, <1>6, <1>7, <1>8, <1>9, <1>10, <1>11
     DEF Request

\* The first intent of a safe sequence keeps the integrity, and the rest is
\* safe in the state it leaves.
LEMMA SafeStep ==
  ASSUME NEW st \in State, NEW q \in Seq(Intent), Len(q) > 0,
         Integrity(st), Safe(st, q)
  PROVE  /\ Integrity(Mutate(st, Head(q)))
         /\ Safe(Mutate(st, Head(q)), Tail(q))
<1> DEFINE i == q[1]
           st2 == Mutate(st, i)
<1>1. /\ Head(q) = i /\ i \in Request
      /\ Tail(q) \in Seq(Intent) /\ Len(Tail(q)) = Len(q) - 1
      /\ \A j \in 1..Len(Tail(q)) : Tail(q)[j] = q[j + 1]
  <2>1. Head(q) = i /\ i \in Intent
    OBVIOUS
  <2>2. Tail(q) \in Seq(Intent) /\ Len(Tail(q)) = Len(q) - 1
    OBVIOUS
  <2>3. \A j \in 1..Len(Tail(q)) : Tail(q)[j] = q[j + 1]
    BY <2>2
  <2>4. QED
    BY <2>1, <2>2, <2>3 DEF Intent
<1>2. \/ i.kind \in {"token.delete", "chat.send"}
      \/ i.kind = "scene.delete" /\ TokensIn(st, i.sceneId) = {}
  <2>1. 1 \in 1..Len(q) /\ 1 - 1 = 0 /\ 1..0 = {}
    OBVIOUS
  <2>2. \/ i.kind \in {"token.delete", "chat.send"}
        \/ /\ i.kind = "scene.delete"
           /\ \A t \in TokensIn(st, i.sceneId) :
                \E k \in 1..(1 - 1) : q[k] = DeleteTokenIntent(t)
    BY <2>1, Zenon DEF Safe
  <2>3. QED
    BY <2>1, <2>2
<1>3. /\ Integrity(st2)
      /\ \A s \in SceneIds : TokensIn(st2, s) \subseteq TokensIn(st, s)
      /\ i.kind = "token.delete" => ~TokenExists(st2, i.tokenId)
  <2> USE RequestFields, <1>1
  <2>1. CASE i.kind = "token.delete"
    BY <2>1 DEF Integrity, TokensIn, TokenExists, SceneExists, State, Mutate,
                DeleteToken
  <2>2. CASE i.kind = "chat.send"
    BY <2>2 DEF Mutate
  <2>3. CASE i.kind = "scene.delete" /\ TokensIn(st, i.sceneId) = {}
    <3>1. /\ st2.tokens = st.tokens
          /\ st2.activeSceneId = IF st.activeSceneId = i.sceneId THEN None
                                 ELSE st.activeSceneId
          /\ \A s \in SceneIds : s # i.sceneId => st2.scenes[s] = st.scenes[s]
      BY <2>3 DEF State, Mutate, DeleteScene
    <3>2. \A t \in TokenIds : st.tokens[t] # None =>
            st.tokens[t].sceneId \in SceneIds \ {i.sceneId}
      BY <2>3 DEF TokensIn, TokenExists, State, Token
    <3>3. QED
      BY <2>3, <3>1, <3>2
         DEF Integrity, TokensIn, TokenExists, SceneExists, State
  <2>4. QED
    BY <1>2, <2>1, <2>2, <2>3
<1>4. Safe(st2, Tail(q))
  <2>1. SUFFICES ASSUME NEW j \in 1..Len(Tail(q)),
                        Tail(q)[j].kind \notin {"token.delete", "chat.send"}
                 PROVE  /\ Tail(q)[j].kind = "scene.delete"
                        /\ \A t \in TokensIn(st2, Tail(q)[j].sceneId) :
                             \E k \in 1..(j - 1) : Tail(q)[k] = DeleteTokenIntent(t)
    BY DEF Safe
  <2>2. /\ j + 1 \in 1..Len(q) /\ Tail(q)[j] = q[j + 1]
        /\ q[j + 1] \in Request
    BY <1>1 DEF Intent
  <2>3. /\ q[j + 1].kind = "scene.delete"
        /\ \A t \in TokensIn(st, q[j + 1].sceneId) :
             \E k \in 1..j : q[k] = DeleteTokenIntent(t)
    BY <2>1, <2>2 DEF Safe
  <2>4. ASSUME NEW t \in TokensIn(st2, q[j + 1].sceneId)
        PROVE  \E k \in 1..(j - 1) : Tail(q)[k] = DeleteTokenIntent(t)
    <3>1. q[j + 1].sceneId \in SceneIds
      BY <2>2, <2>3, RequestFields
    <3>2. PICK k \in 1..j : q[k] = DeleteTokenIntent(t)
      BY <1>3, <2>3, <3>1
    <3>3. k # 1
      <4>1. SUFFICES ASSUME k = 1 PROVE FALSE
        OBVIOUS
      <4>2. i.kind = "token.delete" /\ i.tokenId = t
        BY <3>2, <4>1 DEF DeleteTokenIntent
      <4>3. QED
        BY <1>3, <2>4, <4>2 DEF TokensIn
    <3>4. k - 1 \in 1..(j - 1) /\ Tail(q)[k - 1] = q[k]
      BY <1>1, <3>2, <3>3
    <3>5. QED
      BY <3>2, <3>4
  <2>5. QED
    BY <2>2, <2>3, <2>4
<1>5. QED
  BY <1>1, <1>3, <1>4

\* The cascade of scene.delete is safe: all tokens of the scene go first.
LEMMA CascadeIsSafe ==
  ASSUME NEW st \in State, NEW r \in Request, r.kind = "scene.delete",
         NEW q \in Orders(TokensIn(st, r.sceneId))
  PROVE  Safe(st, Cascade(r, q))
<1> DEFINE n == Cardinality(TokensIn(st, r.sceneId))
<1>1. n \in Nat
  BY FS_Subset, FS_CardinalityType, IdsAssumption DEF TokensIn
<1>2. /\ q \in [1..n -> TokensIn(st, r.sceneId)]
      /\ \A t \in TokensIn(st, r.sceneId) : \E k \in 1..n : q[k] = t
  BY DEF Orders
<1>3. Len(q) = n
  BY <1>1, <1>2, LenProperties, SeqDef
<1>4. /\ Len(Cascade(r, q)) = n + 1
      /\ Cascade(r, q)[n + 1] = r
      /\ \A k \in 1..n : Cascade(r, q)[k] = DeleteTokenIntent(q[k])
  <2> DEFINE dels == [k \in 1..n |-> DeleteTokenIntent(q[k])]
  <2>1. dels \in Seq({DeleteTokenIntent(t) : t \in TokensIn(st, r.sceneId)})
    <3>1. dels \in [1..n -> {DeleteTokenIntent(t) : t \in TokensIn(st, r.sceneId)}]
      BY <1>2
    <3>2. QED
      BY <1>1, <3>1, SeqDef
  <2>2. Len(dels) = n
    BY <1>1, <2>1, LenProperties
  <2>3. Cascade(r, q) = Append(dels, r)
    BY <1>3 DEF Cascade
  <2>4. QED
    BY <1>1, <2>1, <2>2, <2>3
<1>5. ASSUME NEW j \in 1..(n + 1)
      PROVE  \/ Cascade(r, q)[j].kind \in {"token.delete", "chat.send"}
             \/ /\ Cascade(r, q)[j].kind = "scene.delete"
                /\ \A t \in TokensIn(st, Cascade(r, q)[j].sceneId) :
                     \E k \in 1..(j - 1) : Cascade(r, q)[k] = DeleteTokenIntent(t)
  <2>1. CASE j \in 1..n
    <3>1. Cascade(r, q)[j] = DeleteTokenIntent(q[j])
      BY <1>4, <2>1
    <3>2. QED
      BY <3>1 DEF DeleteTokenIntent
  <2>2. CASE j = n + 1
    BY <1>1, <1>2, <1>4, <2>2
  <2>3. QED
    BY <1>1, <2>1, <2>2
<1>6. QED
  BY <1>4, <1>5 DEF Safe

\* Having nothing to do is safe.
LEMMA NothingIsSafe ==
  ASSUME NEW st
  PROVE  Safe(st, << >>)
BY DEF Safe

\* A dispatch that begins keeps the integrity, and will keep it to its end.
LEMMA BeginIsSafe ==
  ASSUME NEW st \in State, NEW r \in Request, NEW args, NEW rulesets,
         Integrity(st), Resolves(st, args, r),
         NEW todo \in IntentsOf(st, r, rulesets)
  PROVE  /\ Integrity(Mutate(st, Head(todo)))
         /\ Safe(Mutate(st, Head(todo)), Tail(todo))
<1>1. todo \in Seq(Intent) /\ Len(todo) > 0
  BY IntentsType
<1>2. CASE r.kind = "scene.delete"
  <2>1. PICK q \in Orders(TokensIn(st, r.sceneId)) : todo = Cascade(r, q)
    BY <1>2 DEF IntentsOf
  <2>2. Safe(st, todo)
    BY <1>2, <2>1, CascadeIsSafe
  <2>3. QED
    BY <1>1, <2>2, SafeStep
<1>3. CASE r.kind # "scene.delete"
  <2>1. \/ todo = <<r>>
        \/ todo = <<r, [kind |-> "chat.send"]>>
    <3>1. CASE r.kind = "token.move" /\ "dnd" \in rulesets
      BY <3>1, MoveIntents
    <3>2. CASE ~(r.kind = "token.move" /\ "dnd" \in rulesets)
      BY <1>3, <3>2 DEF IntentsOf
    <3>3. QED
      BY <3>1, <3>2
  <2>2. CASE todo = <<r>>
    <3>1. Head(todo) = r /\ Tail(todo) = << >>
      BY <2>2
    <3>2. QED
      BY <1>3, <3>1, NothingIsSafe, ResolvedKeepsIntegrity
  <2>3. CASE todo = <<r, [kind |-> "chat.send"]>>
    <3> DEFINE chat == [kind |-> "chat.send"]
    <3>1. chat.kind = "chat.send"
      OBVIOUS
    <3> HIDE DEF chat
    <3>2. todo = <<r, chat>>
      BY <2>3 DEF chat
    <3>3. Head(todo) = r /\ Tail(todo) = <<chat>>
      BY <3>2
    <3>4. Safe(Mutate(st, r), Tail(todo))
      <4>1. Len(<<chat>>) = 1 /\ <<chat>>[1] = chat
        OBVIOUS
      <4>2. \A j \in 1..1 : <<chat>>[j].kind = "chat.send"
        BY <3>1, <4>1
      <4>3. Safe(Mutate(st, r), <<chat>>)
        BY <4>1, <4>2 DEF Safe
      <4>4. QED
        BY <3>3, <4>3
    <3>5. QED
      BY <1>3, <3>3, <3>4, ResolvedKeepsIntegrity
  <2>4. QED
    BY <2>1, <2>2, <2>3
<1>4. QED
  BY <1>2, <1>3

----------------------------------------------------------------------------
(* The loop over the intents of a dispatch *)

\* A set of numbers has a least one.
LEMMA Least ==
  ASSUME NEW S \in SUBSET Nat, S # {}
  PROVE  \E m \in S : \A k \in S : m <= k
<1> DEFINE R == {p \in Nat \X Nat : p[1] < p[2]}
<1>1. OpToRel(<, Nat) = R
  BY DEF OpToRel
<1>2. IsWellFoundedOn(R, Nat)
  BY <1>1, NatLessThanWellFounded
<1>3. PICK x \in S : \A y \in S : <<y, x>> \notin R
  BY <1>2, WFMin
<1>4. \A y \in S : ~(y < x)
  BY <1>3
<1>5. QED
  BY <1>4

\* f has the state of the loop after each of the first n intents of q.
Runs(f, st, q, n) ==
  f = [i \in 0..n |-> IF i = 0 THEN st ELSE Mutate(f[i - 1], q[i])]

\* However many of its intents the loop has taken, it has come to some state.
LEMMA LoopRuns ==
  ASSUME NEW st, NEW q, NEW n \in Nat
  PROVE  \E f : Runs(f, st, q, n)
<1> DEFINE Stuck == {k \in Nat : ~ \E f : Runs(f, st, q, k)}
<1>1. SUFFICES ASSUME Stuck # {} PROVE FALSE
  OBVIOUS
<1>2. Stuck \in SUBSET Nat
  OBVIOUS
<1>3. PICK m \in Stuck : \A k \in Stuck : m <= k
  <2> HIDE DEF Stuck
  <2>1. QED
    BY <1>1, <1>2, Least
<1>4. m \in Nat /\ ~ \E f : Runs(f, st, q, m)
  OBVIOUS
<1>5. m # 0
  <2>1. SUFFICES ASSUME m = 0 PROVE FALSE
    OBVIOUS
  <2> DEFINE f == [i \in 0..0 |-> st]
  <2>2. Runs(f, st, q, 0)
    BY DEF Runs
  <2>3. QED
    BY <1>4, <2>1, <2>2
<1>6. m - 1 \in Nat /\ m - 1 \notin Stuck
  BY <1>3, <1>4, <1>5
<1>7. PICK f : Runs(f, st, q, m - 1)
  BY <1>6
<1> DEFINE g == [i \in 0..m |-> IF i = m THEN Mutate(f[m - 1], q[m]) ELSE f[i]]
<1>8. ASSUME NEW i \in 0..m
      PROVE  g[i] = IF i = 0 THEN st ELSE Mutate(g[i - 1], q[i])
  <2>1. CASE i = m
    BY <1>4, <1>5, <2>1
  <2>2. CASE i # m
    <3>1. i \in 0..(m - 1)
      BY <1>4, <2>2
    <3>2. f[i] = IF i = 0 THEN st ELSE Mutate(f[i - 1], q[i])
      BY <1>7, <3>1 DEF Runs
    <3>3. g[i] = f[i] /\ (i # 0 => g[i - 1] = f[i - 1])
      BY <1>4, <2>2
    <3>4. QED
      BY <3>2, <3>3
  <2>3. QED
    BY <2>1, <2>2
<1>9. Runs(g, st, q, m)
  <2>1. g = [i \in 0..m |-> g[i]]
    OBVIOUS
  <2> HIDE DEF g
  <2>2. QED
    BY <1>8, <2>1 DEF Runs
<1>10. QED
  BY <1>4, <1>9

\* Applied is where the loop has come at the end.
LEMMA AppliedRuns ==
  ASSUME NEW st, NEW q \in Seq(Intent)
  PROVE  \E f : Runs(f, st, q, Len(q)) /\ Applied(st, q) = f[Len(q)]
<1>1. Len(q) \in Nat
  OBVIOUS
<1> DEFINE after == CHOOSE f : Runs(f, st, q, Len(q))
<1>2. Runs(after, st, q, Len(q))
  BY <1>1, LoopRuns
<1>3. Applied(st, q) = after[Len(q)]
  BY DEF Applied, Runs
<1> HIDE DEF after
<1>4. QED
  BY <1>2, <1>3

\* A dispatch that has nothing to do leaves the state as it is.
LEMMA AppliedNothing ==
  ASSUME NEW st
  PROVE  Applied(st, << >>) = st
<1>1. << >> \in Seq(Intent) /\ Len(<< >>) = 0
  OBVIOUS
<1>2. PICK f : Runs(f, st, << >>, 0) /\ Applied(st, << >>) = f[0]
  BY <1>1, AppliedRuns
<1>3. 0 \in 0..0
  OBVIOUS
<1>4. f[0] = st
  BY <1>2, <1>3 DEF Runs
<1>5. QED
  BY <1>2, <1>4

\* The loop is its first turn, and then the loop over the rest.
LEMMA AppliedStep ==
  ASSUME NEW st, NEW q \in Seq(Intent), Len(q) > 0
  PROVE  Applied(st, q) = Applied(Mutate(st, Head(q)), Tail(q))
<1> DEFINE n == Len(q) - 1
           st2 == Mutate(st, Head(q))
<1>1. /\ n \in Nat /\ Len(q) = n + 1 /\ Head(q) = q[1]
      /\ Tail(q) \in Seq(Intent) /\ Len(Tail(q)) = n
      /\ \A i \in 1..n : Tail(q)[i] = q[i + 1]
  OBVIOUS
<1>2. PICK f : Runs(f, st, q, n + 1) /\ Applied(st, q) = f[n + 1]
  BY <1>1, AppliedRuns
<1>3. PICK g : Runs(g, st2, Tail(q), n) /\ Applied(st2, Tail(q)) = g[n]
  BY <1>1, AppliedRuns
<1>4. f[0] = st /\ f[1] = st2
  <2>1. 0 \in 0..(n + 1) /\ 1 \in 0..(n + 1) /\ 1 # 0 /\ 1 - 1 = 0
    BY <1>1
  <2>2. f[0] = st /\ f[1] = Mutate(f[0], q[1])
    BY <1>2, <2>1 DEF Runs
  <2>3. QED
    BY <1>1, <2>2
<1> HIDE DEF n, st2
<1>5. \A i \in 0..n : g[i] = f[i + 1]
  <2> DEFINE D == {i \in 0..n : g[i] # f[i + 1]}
  <2>1. SUFFICES ASSUME D # {} PROVE FALSE
    OBVIOUS
  <2>2. D \in SUBSET Nat
    BY <1>1
  <2>3. PICK m \in D : \A i \in D : m <= i
    <3> HIDE DEF D
    <3>1. QED
      BY <2>1, <2>2, Least
  <2>4. m \in 0..n /\ g[m] # f[m + 1] /\ (m # 0 => g[m - 1] = f[m])
    BY <1>1, <2>3
  <2>5. m = 0 => g[m] = st2
    BY <1>3, <2>4 DEF Runs
  <2>6. m # 0 => g[m] = Mutate(g[m - 1], Tail(q)[m])
    BY <1>3, <2>4 DEF Runs
  <2>7. m # 0 => f[m + 1] = Mutate(f[m], q[m + 1])
    <3> DEFINE j == m + 1
    <3>1. j \in 0..(n + 1) /\ j # 0 /\ j - 1 = m
      BY <1>1, <2>4
    <3> HIDE DEF j
    <3>2. f[j] = Mutate(f[j - 1], q[j])
      BY <1>2, <3>1 DEF Runs
    <3>3. f[j] = Mutate(f[m], q[j])
      BY <3>1, <3>2
    <3>4. QED
      BY <3>3 DEF j
  <2>8. m # 0 => Tail(q)[m] = q[m + 1]
    BY <1>1, <2>4
  <2>9. CASE m = 0
    <3>1. g[m] = f[1] /\ m + 1 = 1
      BY <1>4, <2>5, <2>9
    <3>2. QED
      BY <2>4, <3>1
  <2>10. CASE m # 0
    BY <2>4, <2>6, <2>7, <2>8, <2>10
  <2>11. QED
    BY <2>9, <2>10
<1>6. g[n] = f[n + 1]
  BY <1>1, <1>5
<1>7. QED
  BY <1>2, <1>3, <1>6 DEF st2

\* The events of a dispatch: the first, and then those of the rest.
LEMMA StoredEventsStep ==
  ASSUME NEW log \in Seq(Intent), NEW q \in Seq(Intent), Len(q) > 0
  PROVE  log \o StoredEvents(q) = Append(log, StoredEvent(Head(q))) \o StoredEvents(Tail(q))
<1> DEFINE n == Len(q) - 1
           k == Len(log)
           a == StoredEvents(q)
           b == StoredEvents(Tail(q))
           c == Append(log, StoredEvent(Head(q)))
<1>1. /\ n \in Nat /\ k \in Nat /\ Len(q) = n + 1 /\ Head(q) = q[1] /\ Head(q) \in Intent
      /\ Tail(q) \in Seq(Intent) /\ Len(Tail(q)) = n
      /\ \A i \in 1..n : Tail(q)[i] = q[i + 1]
      /\ \A i \in 1..(n + 1) : q[i] \in Intent
  OBVIOUS
<1>2. a \in Seq(Intent) /\ Len(a) = n + 1 /\ \A i \in 1..(n + 1) : a[i] = StoredEvent(q[i])
  <2>1. a \in [1..(n + 1) -> Intent]
    BY <1>1, StoredEventType DEF StoredEvents
  <2>2. n + 1 \in Nat
    BY <1>1
  <2>3. QED
    BY <1>1, <2>1, <2>2, SeqDef, LenProperties DEF StoredEvents
<1>3. b \in Seq(Intent) /\ Len(b) = n /\ \A i \in 1..n : b[i] = StoredEvent(q[i + 1])
  <2>1. b = [i \in 1..n |-> StoredEvent(q[i + 1])]
    BY <1>1 DEF StoredEvents
  <2>2. \A i \in 1..n : i + 1 \in 1..(n + 1)
    BY <1>1
  <2>3. b \in [1..n -> Intent]
    BY <1>1, <2>1, <2>2, StoredEventType
  <2>4. \A i \in 1..n : b[i] = StoredEvent(q[i + 1])
    BY <2>1
  <2> HIDE DEF b
  <2>5. b \in Seq(Intent)
    BY <1>1, <2>3, SeqDef
  <2>6. Len(b) = n
    <3>1. n \in Nat
      BY <1>1
    <3>2. DOMAIN b = 1..n
      BY <2>3
    <3>3. Len(b) \in Nat /\ DOMAIN b = 1..Len(b)
      BY <2>5, LenProperties
    <3> HIDE DEF n
    <3>4. QED
      BY <3>1, <3>2, <3>3
  <2>7. QED
    BY <2>4, <2>5, <2>6
<1>4. /\ c \in Seq(Intent) /\ Len(c) = k + 1 /\ c[k + 1] = StoredEvent(q[1])
      /\ \A i \in 1..k : c[i] = log[i]
  <2>1. StoredEvent(Head(q)) \in Intent
    BY <1>1, StoredEventType
  <2>2. QED
    BY <1>1, <2>1
<1> HIDE DEF a, b, c, n, k
<1>5. k = Len(log)
  BY DEF k
<1>6. log \o a \in Seq(Intent) /\ c \o b \in Seq(Intent)
  BY <1>2, <1>3, <1>4
<1>7. Len(log \o a) = k + n + 1 /\ Len(c \o b) = k + n + 1
  <2>1. /\ a \in Seq(Intent) /\ b \in Seq(Intent) /\ c \in Seq(Intent)
        /\ Len(log) = k /\ Len(a) = n + 1 /\ Len(b) = n /\ Len(c) = k + 1
    BY <1>2, <1>3, <1>4, <1>5
  <2>2. Len(log \o a) = Len(log) + Len(a) /\ Len(c \o b) = Len(c) + Len(b)
    BY <2>1, ConcatProperties, Zenon
  <2>3. QED
    BY <1>1, <2>1, <2>2
<1>8. ASSUME NEW i \in 1..(k + n + 1)
      PROVE  (log \o a)[i] = (c \o b)[i]
  <2>1. CASE i \in 1..k
    BY <1>1, <1>2, <1>3, <1>4, <1>5, <2>1
  <2>2. CASE i = k + 1
    <3>1. (log \o a)[i] = a[1] /\ (c \o b)[i] = c[k + 1] /\ 1 \in 1..(n + 1)
      BY <1>1, <1>2, <1>3, <1>4, <1>5, <2>2
    <3>2. QED
      BY <1>2, <1>4, <3>1
  <2>3. CASE i \in (k + 2)..(k + n + 1)
    <3>1. i - k \in 1..(n + 1) /\ i - k - 1 \in 1..n /\ i - k - 1 + 1 = i - k
      BY <1>1, <2>3
    <3>2. (log \o a)[i] = a[i - k]
      BY <1>1, <1>2, <1>5, <2>3
    <3>3. (c \o b)[i] = b[i - k - 1]
      BY <1>1, <1>3, <1>4, <2>3
    <3>4. QED
      BY <1>2, <1>3, <3>1, <3>2, <3>3
  <2>4. i \in 1..k \/ i = k + 1 \/ i \in (k + 2)..(k + n + 1)
    BY <1>1
  <2>5. QED
    BY <2>1, <2>2, <2>3, <2>4
<1>9. log \o a = c \o b
  BY <1>6, <1>7, <1>8, SeqEqual
<1>10. QED
  BY <1>9 DEF a, b, c

\* And none of a dispatch that has nothing to do.
LEMMA StoredEventsOfNothing ==
  ASSUME NEW log \in Seq(Intent)
  PROVE  log \o StoredEvents(<< >>) = log
<1>1. StoredEvents(<< >>) = << >>
  BY DEF StoredEvents
<1>2. QED
  BY <1>1

============================================================================
