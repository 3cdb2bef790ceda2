------------------------------ MODULE AdminTree ------------------------------
(* The admin page: the store adminTree (client/src/state/admin.svelte.ts), the *)
(* panels that call it, and the requests it has in flight. Every operation of  *)
(* the store is a request that changes the server and then one or two that     *)
(* fetch what it shows; between any two of them other operations run, because  *)
(* a panel locks only its own buttons and the tree leads to another panel.     *)
(* The server answers requests in any order; its side is modelled from the     *)
(* routes as sets. Names, roles and accounts are left out.                     *)
EXTENDS Integers, FiniteSets, Bags, Sequences

CONSTANTS Campaigns,     \* ids of campaigns, strings
          MaxSeats,      \* bound: seats ever made in a campaign
          MaxOps,        \* bound: operations started in this tab
          MaxElsewhere   \* bound: changes made by another tab of the admin

ASSUME AdminTreeAssumption ==
  Campaigns # {} /\ MaxSeats \in Nat /\ MaxOps \in Nat /\ MaxElsewhere \in Nat

VARIABLES srv,          \* what the server has: campaigns, seats, invites, and what it ever made
          campaigns,    \* the arrays of the store: a set, and bags, where one id may come twice
          seats, invites,
          nodes,        \* node id -> ids of its children
          expandedIds, selectedId,
          storeLoading, loadError,
          shown,        \* AdminLayout has finished its check and its first load
          panelLoading, \* the flag that disables the buttons of the panel shown
          ops,          \* the operations in flight
          opCount, elsewhere,
          mixed         \* two operations overlapped, one failed, or another tab acted

treeVars == <<srv, campaigns, seats, invites, nodes, expandedIds, selectedId, storeLoading,
              loadError, shown, panelLoading, ops, opCount, elsewhere, mixed>>
dataVars == <<campaigns, seats, invites>>
navVars  == <<nodes, expandedIds, selectedId>>

Node(kind, c, n) == [kind |-> kind, camp |-> c, n |-> n]
Root(kind)       == Node(kind, "", 0)
CampaignNode(c)  == Node("campaign", c, 0)
Seats == {Node("seat", c, n) : c \in Campaigns, n \in 1..MaxSeats}
Invite(s, revoked) == [seat |-> s, revoked |-> revoked]

SliceKinds == {"createSeat", "updateSeat", "deleteSeat", "createInvite", "revokeInvite"}
ListKinds  == {"createCampaign", "renameCampaign"}

IsIn(b, x) == x \in BagToSet(b)
Keep(b, Test(_)) == [x \in {y \in BagToSet(b) : Test(y)} |-> b[x]]
------------------------------------------------------------------------------
(* Lookups of the store.                                                       *)
getSeatsForCampaign(c) == {s \in BagToSet(seats) : s.camp = c}
getInvitesForSeat(s)   == {i \in BagToSet(invites) : i.seat = s}

Parent(id) == IF id.kind = "campaign" THEN {Root("campaigns")}
              ELSE IF id.kind = "seat" THEN {CampaignNode(id.camp)} ELSE {}
Ancestors(id, nds) ==
  LET up == Parent(id) \cap DOMAIN nds
  IN up \cup UNION {Parent(p) \cap DOMAIN nds : p \in up}

(* _rebuildTree: the nodes from the arrays, and what no longer exists is no    *)
(* longer expanded or selected.                                                *)
Tree(camps, sts) ==
  LET children == [id \in {Root("campaigns")} \cup {CampaignNode(c) : c \in camps} |->
                     IF id.kind = "campaigns" THEN {CampaignNode(c) : c \in camps}
                     ELSE {s \in BagToSet(sts) : s.camp = id.camp}]
  IN [id \in DOMAIN children \cup BagToSet(sts) \cup {Root("settings"), Root("accounts")} |->
        IF id \in DOMAIN children THEN children[id] ELSE {}]

StillSelected(nds) == IF selectedId \in DOMAIN nds THEN selectedId ELSE Root("settings")

_rebuildTree ==
  /\ nodes' = Tree(campaigns', seats')
  /\ expandedIds' = expandedIds \cap DOMAIN nodes'
  /\ selectedId' = StillSelected(nodes')

(* navigateTo: an id that has no node is ignored.                              *)
navigateTo(id, expanded) ==
  /\ UNCHANGED nodes
  /\ expandedIds' = IF id \in DOMAIN nodes THEN expanded \cup Ancestors(id, nodes) ELSE expanded
  /\ selectedId' = IF id \in DOMAIN nodes THEN id ELSE selectedId

rebuildThenNavigateTo(id) ==
  /\ nodes' = Tree(campaigns', seats')
  /\ IF id \in DOMAIN nodes'
     THEN /\ expandedIds' = (expandedIds \cap DOMAIN nodes') \cup Ancestors(id, nodes')
          /\ selectedId' = id
     ELSE /\ expandedIds' = expandedIds \cap DOMAIN nodes'
          /\ selectedId' = StillSelected(nodes')
------------------------------------------------------------------------------
(* The panel shown for the selection. When another is shown its flag is fresh, *)
(* and the operations of the one that went away no longer touch a flag.        *)
Panel(visible, ld, err, id) == IF ~visible \/ ld \/ err THEN "none" ELSE id.kind
PanelShown == Panel(shown, storeLoading, loadError, selectedId)

Panels(inFlight, flag) ==
  IF Panel(shown', storeLoading', loadError', selectedId') = PanelShown
  THEN ops' = inFlight /\ panelLoading' = flag
  ELSE ops' = {[o EXCEPT !.own = o.own /\ o.kind = "load"] : o \in inFlight} /\ panelLoading' = FALSE

Replace(o, p) == (ops \ {o}) \cup {p}
Released(o)   == panelLoading /\ ~(o.own /\ o.kind # "load")

Op(kind, c, s) ==
  [id |-> opCount + 1, kind |-> kind, camp |-> c, seat |-> s, own |-> TRUE, stage |-> "sent",
   oldSeatIds |-> {}, list |-> {}, want |-> {c}, gotSeats |-> << >>, gotInvites |-> << >>]

(* An operation of the panel shown: its flag is set and the request leaves. The *)
(* flag disables the buttons; Enter in a name field does not look at it.       *)
Starts(kind, c, s) ==
  /\ opCount < MaxOps
  /\ panelLoading => kind \in {"renameCampaign", "updateSeat"}
  /\ opCount' = opCount + 1
  /\ ops' = ops \cup {Op(kind, c, s)}
  /\ panelLoading' = TRUE
  /\ mixed' = (mixed \/ ops # {})
  /\ UNCHANGED <<srv, dataVars, navVars, storeLoading, loadError, shown, elsewhere>>

(* What the buttons of each panel start.                                       *)
StartSettingsOp ==
  /\ PanelShown = "settings"
  /\ \/ \E c \in Campaigns \ srv.madeCampaigns : Starts("createCampaign", c, Root("settings"))
     \/ \E c \in campaigns : Starts("deleteCampaign", c, Root("settings"))

StartCampaignOp ==
  /\ PanelShown = "campaign" /\ selectedId.camp \in campaigns
  /\ \E kind \in {"renameCampaign", "createSeat"} :
       Starts(kind, selectedId.camp, Root("settings"))

StartSeatOp ==
  /\ PanelShown = "seat" /\ IsIn(seats, selectedId)
  /\ \/ \E kind \in {"updateSeat", "deleteSeat", "createInvite"} :
          Starts(kind, selectedId.camp, selectedId)
     \/ /\ Invite(selectedId, FALSE) \in getInvitesForSeat(selectedId)
        /\ Starts("revokeInvite", selectedId.camp, selectedId)

(* AdminLayout mounts, at first and whenever the user comes back to the page,  *)
(* and loads; the requests of the visit before are still in flight. Retry is   *)
(* the same without the mount.                                                 *)
StartsLoad(visible) ==
  /\ opCount < MaxOps
  /\ opCount' = opCount + 1
  /\ storeLoading' = TRUE /\ loadError' = FALSE /\ shown' = visible
  /\ ops' = {[o EXCEPT !.own = FALSE] : o \in ops}
              \cup {[Op("load", "", Root("settings")) EXCEPT !.stage = "list", !.want = {}]}
  /\ panelLoading' = FALSE
  /\ mixed' = (mixed \/ ops # {})
  /\ UNCHANGED <<srv, dataVars, navVars, elsewhere>>

Mount == StartsLoad(FALSE)
Retry == shown /\ loadError /\ ~storeLoading /\ StartsLoad(TRUE)
------------------------------------------------------------------------------
(* The server's side.                                                          *)
Drops(s, gone) == [s EXCEPT !.seats = @ \ gone, !.invites = {i \in @ : i.seat \notin gone}]

(* What a request does when it is not refused; a new seat takes a fresh id.    *)
Effect(o, made) ==
  \/ /\ o.kind = "createCampaign" /\ o.camp \notin srv.madeCampaigns /\ made = o.seat
     /\ srv' = [srv EXCEPT !.campaigns = @ \cup {o.camp}, !.madeCampaigns = @ \cup {o.camp}]
  \/ /\ o.kind = "renameCampaign" /\ o.camp \in srv.campaigns /\ made = o.seat
     /\ UNCHANGED srv
  \/ /\ o.kind = "deleteCampaign" /\ o.camp \in srv.campaigns /\ made = o.seat
     /\ srv' = [Drops(srv, {s \in srv.seats : s.camp = o.camp}) EXCEPT !.campaigns = @ \ {o.camp}]
  \/ /\ o.kind = "createSeat" /\ o.camp \in srv.campaigns
     /\ made = Node("seat", o.camp, Cardinality({s \in srv.madeSeats : s.camp = o.camp}) + 1)
     /\ made \in Seats
     /\ srv' = [srv EXCEPT !.seats = @ \cup {made}, !.madeSeats = @ \cup {made}]
  \/ /\ o.kind \in SliceKinds \ {"createSeat"} /\ o.seat \in srv.seats /\ made = o.seat
     /\ \/ o.kind = "updateSeat" /\ UNCHANGED srv
        \/ o.kind = "deleteSeat" /\ srv' = Drops(srv, {o.seat})
        \/ /\ o.kind = "createInvite"
           /\ \A i \in srv.invites : i.seat # o.seat     \* bound: one invite for each seat
           /\ srv' = [srv EXCEPT !.invites = @ \cup {Invite(o.seat, FALSE)}]
        \/ /\ o.kind = "revokeInvite" /\ Invite(o.seat, FALSE) \in srv.invites
           /\ srv' = [srv EXCEPT !.invites = (@ \ {Invite(o.seat, FALSE)}) \cup {Invite(o.seat, TRUE)}]

ServerMutates(o) ==
  /\ o.stage = "sent"
  /\ \E made \in Seats \cup {o.seat} :
       Effect(o, made) /\ ops' = Replace(o, [o EXCEPT !.stage = "served", !.seat = made])
  /\ UNCHANGED <<dataVars, navVars, storeLoading, loadError, shown, panelLoading, opCount, elsewhere, mixed>>

(* Another tab of the admin changes something; this one is not told.           *)
AnotherTab ==
  /\ elsewhere < MaxElsewhere
  /\ elsewhere' = elsewhere + 1
  /\ \E kind \in SliceKinds \cup {"createCampaign", "deleteCampaign"}, c \in Campaigns :
       \E s \in {Root("settings")} \cup srv.seats, made \in Seats \cup {Root("settings")} :
         (s.kind = "seat" => s.camp = c) /\ Effect(Op(kind, c, s), made) /\ srv' # srv
  /\ mixed' = TRUE
  /\ UNCHANGED <<dataVars, navVars, storeLoading, loadError, shown, panelLoading, ops, opCount>>

Served(o, p) ==
  /\ ops' = Replace(o, p)
  /\ UNCHANGED <<srv, dataVars, navVars, storeLoading, loadError, shown, panelLoading, opCount, elsewhere, mixed>>

ServeList(o) == o.stage = "list" /\ Served(o, [o EXCEPT !.stage = "listed", !.list = srv.campaigns])

(* A plausible bug: what is shown is fetched together with the change.         *)
FetchesAtOnce(o) == o.stage \in {"sent", "served", "refresh"}
Fetches(o) == o.stage = "refresh"

Received(f, c, rows) == [x \in DOMAIN f \cup {c} |-> IF x = c THEN rows ELSE f[x]]

ServeSeats(o, c) ==
  /\ Fetches(o) /\ c \in o.want \ DOMAIN o.gotSeats
  /\ Served(o, [o EXCEPT !.gotSeats = Received(@, c, {s \in srv.seats : s.camp = c})])

ServeInvites(o, c) ==
  /\ Fetches(o) /\ c \in o.want \ DOMAIN o.gotInvites
  /\ Served(o, [o EXCEPT !.gotInvites = Received(@, c, {i \in srv.invites : i.seat.camp = c})])

Complete(o) == o.stage = "refresh" /\ DOMAIN o.gotSeats = o.want /\ DOMAIN o.gotInvites = o.want
------------------------------------------------------------------------------
(* The answers.                                                                *)

(* The change was made: the slice is asked for again, after the ids of the     *)
(* seats it has now were noted; a campaign's name or creation asks for the list. *)
AnswerMutation(o) ==
  /\ o.stage = "served" /\ o.kind \in SliceKinds \cup ListKinds
  /\ ops' = Replace(o, IF o.kind \in ListKinds THEN [o EXCEPT !.stage = "list"]
                       ELSE [o EXCEPT !.stage = "refresh", !.oldSeatIds = getSeatsForCampaign(o.camp)])
  /\ UNCHANGED <<srv, dataVars, navVars, storeLoading, loadError, shown, panelLoading, opCount, elsewhere, mixed>>

Rest == UNCHANGED <<srv, opCount, elsewhere>>

(* A plausible bug: the seats are gone from the store when their invites are   *)
(* looked up.                                                                  *)
PrunedInvitesTooLate(c) == invites

(* deleteCampaign fetches nothing: it takes the campaign, its seats and their  *)
(* invites out of the arrays.                                                  *)
PrunedInvites(c) == Keep(invites, LAMBDA i : i.seat \notin getSeatsForCampaign(c))

CampaignDeleted(o) ==
  /\ o.stage = "served" /\ o.kind = "deleteCampaign"
  /\ campaigns' = campaigns \ {o.camp}
  /\ seats' = Keep(seats, LAMBDA s : s.camp # o.camp)
  /\ invites' = PrunedInvites(o.camp)
  /\ _rebuildTree
  /\ UNCHANGED <<storeLoading, loadError, shown, mixed>>
  /\ Panels(ops \ {o}, Released(o)) /\ Rest

CampaignsListed(o) ==
  /\ o.stage = "listed" /\ o.kind \in ListKinds
  /\ campaigns' = o.list
  /\ UNCHANGED <<seats, invites, storeLoading, loadError, shown, mixed>>
  /\ _rebuildTree
  /\ Panels(ops \ {o}, Released(o)) /\ Rest

(* A plausible bug: the slice is added to the array and not put in its place.  *)
EverySeat(c) == seats
OtherSeats(c) == Keep(seats, LAMBDA s : s.camp # c)

(* Creating and revoking an invite rebuild no tree. After deleting a seat the  *)
(* panel goes to its campaign, wherever the user has gone meanwhile, and does  *)
(* not reset its flag.                                                         *)
SliceLands(o) ==
  /\ Complete(o) /\ o.kind \in SliceKinds
  /\ seats' = OtherSeats(o.camp) (+) SetToBag(o.gotSeats[o.camp])
  /\ invites' = Keep(invites, LAMBDA i : i.seat \notin o.oldSeatIds) (+) SetToBag(o.gotInvites[o.camp])
  /\ UNCHANGED <<campaigns, storeLoading, loadError, shown, mixed>>
  /\ \/ o.kind \in {"createSeat", "updateSeat"} /\ _rebuildTree
     \/ o.kind = "deleteSeat" /\ rebuildThenNavigateTo(CampaignNode(o.camp))
     \/ o.kind \in {"createInvite", "revokeInvite"} /\ UNCHANGED navVars
  /\ Panels(ops \ {o}, IF o.kind = "deleteSeat" THEN panelLoading ELSE Released(o)) /\ Rest

(* load: the campaigns land first, then the seats and invites of all of them.  *)
LoadListed(o) ==
  /\ o.stage = "listed" /\ o.kind = "load"
  /\ campaigns' = o.list
  /\ ops' = Replace(o, [o EXCEPT !.stage = "refresh", !.want = o.list])
  /\ UNCHANGED <<seats, invites, navVars, storeLoading, loadError, shown, panelLoading, mixed>> /\ Rest

LoadLands(o) ==
  /\ Complete(o) /\ o.kind = "load"
  /\ seats' = SetToBag(UNION {o.gotSeats[c] : c \in o.want})
  /\ invites' = SetToBag(UNION {o.gotInvites[c] : c \in o.want})
  /\ UNCHANGED campaigns
  /\ _rebuildTree
  /\ storeLoading' = FALSE
  /\ shown' = (shown \/ o.own)
  /\ UNCHANGED <<loadError, mixed>>
  /\ Panels(ops \ {o}, panelLoading) /\ Rest

(* A request is refused, or it or its answer is lost: the operation ends where *)
(* it is, and what it changed on the server stays.                             *)
OpFails(o) ==
  /\ ~Complete(o)
  /\ mixed' = TRUE
  /\ storeLoading' = (storeLoading /\ o.kind # "load")
  /\ loadError' = (loadError \/ o.kind = "load")
  /\ shown' = (shown \/ (o.kind = "load" /\ o.own))
  /\ UNCHANGED <<dataVars, navVars>>
  /\ Panels(ops \ {o}, Released(o)) /\ Rest
------------------------------------------------------------------------------
(* Navigation: the buttons of the tree and the links of the panels.            *)
Visible(id) == Parent(id) \subseteq expandedIds
              /\ \A p \in Parent(id) : Parent(p) \subseteq expandedIds

toggled(id) == IF nodes[id] = {} THEN expandedIds
               ELSE (expandedIds \ {id}) \cup ({id} \ expandedIds)

Goes(id, expanded) ==
  /\ shown
  /\ navigateTo(id, expanded)
  /\ UNCHANGED <<dataVars, storeLoading, loadError, shown, mixed>>
  /\ Panels(ops, panelLoading) /\ Rest

ClickNode(id) == id \in DOMAIN nodes /\ Visible(id) /\ Goes(id, toggled(id))

FollowLink(id) ==
  /\ \/ PanelShown = "settings" /\ id \in {CampaignNode(c) : c \in campaigns}
     \/ /\ PanelShown = "campaign" /\ selectedId.camp \in campaigns
        /\ id \in {Root("campaigns")} \cup getSeatsForCampaign(selectedId.camp)
     \/ PanelShown = "seat" /\ IsIn(seats, selectedId) /\ id = CampaignNode(selectedId.camp)
  /\ Goes(id, expandedIds)
------------------------------------------------------------------------------
AdminTreeInit ==
  /\ LET c == CHOOSE c \in Campaigns : TRUE
     IN srv = [campaigns |-> {c}, madeCampaigns |-> {c},
               seats |-> {Node("seat", c, 1)}, madeSeats |-> {Node("seat", c, 1)}, invites |-> {}]
  /\ campaigns = {} /\ seats = EmptyBag /\ invites = EmptyBag
  /\ nodes = Tree({}, EmptyBag)
  /\ expandedIds = {Root("settings")} /\ selectedId = Root("settings")
  /\ storeLoading = FALSE /\ loadError = FALSE /\ shown = FALSE /\ panelLoading = FALSE
  /\ ops = {} /\ opCount = 0 /\ elsewhere = 0 /\ mixed = FALSE

Links == {Root("campaigns")} \cup {CampaignNode(c) : c \in Campaigns} \cup Seats

AdminTreeNext ==
  \/ Mount \/ Retry \/ AnotherTab
  \/ StartSettingsOp \/ StartCampaignOp \/ StartSeatOp
  \/ \E o \in ops :
       \/ ServerMutates(o) \/ ServeList(o) \/ AnswerMutation(o)
       \/ CampaignDeleted(o) \/ CampaignsListed(o) \/ SliceLands(o)
       \/ LoadListed(o) \/ LoadLands(o) \/ OpFails(o)
       \/ \E c \in o.want : ServeSeats(o, c) \/ ServeInvites(o, c)
  \/ \E id \in DOMAIN nodes : ClickNode(id)
  \/ \E id \in Links : FollowLink(id)

AdminTreeSpec == AdminTreeInit /\ [][AdminTreeNext]_treeVars

------------------------------------------------------------------------------
(* PROPERTIES                                                                  *)

(* The selected node, the expanded ones and the children of each exist, so the *)
(* page never shows the panel of a node that is gone, and no seat is listed    *)
(* twice (the lists use the id as the key of a row): whatever refreshes, loads *)
(* and deletions overlap and answer while the user is on another panel         *)
(* (admin.svelte.ts:443-541).                                                  *)
TreeIsSound ==
  /\ selectedId \in DOMAIN nodes /\ expandedIds \subseteq DOMAIN nodes
  /\ \A id \in DOMAIN nodes : nodes[id] \subseteq DOMAIN nodes
  /\ \A s \in BagToSet(seats) : seats[s] = 1

(* When every operation so far ran alone and succeeded, and no other tab       *)
(* acted, the arrays hold exactly what the server has: each operation fetches  *)
(* or prunes all it disturbed (admin.svelte.ts:130 "kept in sync by mutation   *)
(* methods").                                                                  *)
CalmStoreIsTheServer ==
  (ops = {} /\ ~mixed /\ shown) =>
    /\ campaigns = srv.campaigns
    /\ seats = SetToBag(srv.seats)
    /\ invites = SetToBag(srv.invites)

(* When an operation ends well the page shows what it did, unless it was       *)
(* undone since, in whatever order the answers of the others came.             *)
ShowsItsOwnWrite(o) ==
  /\ o.kind = "createSeat" => IsIn(seats', o.seat) \/ o.seat \notin srv.seats
  /\ o.kind = "deleteSeat" => ~IsIn(seats', o.seat)
  /\ o.kind = "createInvite" => \/ \E revoked \in BOOLEAN : IsIn(invites', Invite(o.seat, revoked))
                                \/ o.seat \notin srv.seats
AnswerShowsItsWrite ==
  [][\A o \in ops : (Complete(o) /\ \A p \in ops' : p.id # o.id) => ShowsItsOwnWrite(o)]_treeVars
==============================================================================
