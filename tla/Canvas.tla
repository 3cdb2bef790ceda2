-------------------------------- MODULE Canvas ---------------------------------
(* The canvas of the play page: CanvasInputController turns pointer events     *)
(* into changes of the selection and the board, and the effects of             *)
(* MainCanvas.svelte push what changed to the layers of the renderer. Effects  *)
(* run before the next event is delivered, so they are part of the action that *)
(* changed their input, in the order the component declares them.              *)
(* Where things are is a place; which token a pointer hits, whether it crosses *)
(* the threshold and how the grid snaps are any outcome. Pan and zoom change   *)
(* nothing else than coordinates.                                              *)
EXTENDS Naturals, FiniteSets

CONSTANTS CanvasTokens, Places, Pointers,
          NoToken,       \* no token is hit or hovered
          Nowhere,       \* there is no such ghost
          MaxRenderers   \* bound: PixiJS applications alive or starting

ASSUME CanvasAssumption ==
  /\ NoToken \notin CanvasTokens /\ Nowhere \notin Places
  /\ MaxRenderers \in Nat

VARIABLES board,        \* campaignState.tokens: token -> place, and whether on the active scene
          selected,     \* selectionState.selectedTokenIds
          hovered,      \* selectionState.hoveredTokenId
          stage,        \* how far onMount of MainCanvas has come
          gesture,      \* the fields of the controller
          layers,       \* TokenLayer, SelectionLayer and MarqueeLayer of the renderer
          abandoned,    \* renderers disposed of while init was running
          applications  \* PixiJS applications that hold the GPU

canvasVars == <<board, selected, hovered, stage, gesture, layers, abandoned, applications>>

IdleGesture == [mode |-> "idle", pointer |-> Nowhere, token |-> NoToken, started |-> FALSE]
NoLayers == [sprites |-> <<>>, outlines |-> <<>>, hoverId |-> NoToken, hoverAt |-> Nowhere,
             marquee |-> FALSE]

OnScene(b) == {t \in DOMAIN b : b[t].here}
HasRenderer == stage \in {"starting", "ready"}

CanvasInit ==
  /\ board = <<>> /\ selected = {} /\ hovered = NoToken
  /\ stage = "unmounted" /\ gesture = IdleGesture /\ layers = NoLayers
  /\ abandoned = 0 /\ applications = 0

------------------------------------------------------------------------------
(* The renderer, on a value L of its layers. Calls made before init is done    *)
(* are queued and replayed in order; no pointer can hit anything until then,   *)
(* so they are applied at once.                                                *)

createSprite(place) == [at |-> place, committed |-> place, dragging |-> FALSE]

(* A plausible bug: what happens to a token in the hand is not taken in.       *)
applyUnlessDragged(s, place) ==
  IF s.dragging THEN s ELSE [s EXCEPT !.at = place, !.committed = place]

(* A token in the hand stays under the pointer, whatever is committed.         *)
applyTokenData(s, place) ==
  [s EXCEPT !.committed = place, !.at = IF s.dragging THEN @ ELSE place]

(* Outlines follow their sprites; one whose sprite is gone goes too, and the   *)
(* layer forgets which token was hovered.                                      *)
syncPositions(L) ==
  LET hoverLost == L.hoverAt # Nowhere /\ L.hoverId \notin DOMAIN L.sprites
  IN [L EXCEPT !.outlines = [t \in DOMAIN @ \cap DOMAIN L.sprites |-> L.sprites[t].at],
               !.hoverId = IF hoverLost THEN NoToken ELSE @,
               !.hoverAt = IF @ = Nowhere \/ hoverLost THEN Nowhere
                           ELSE L.sprites[L.hoverId].at]

updateTokens(L, b) ==
  syncPositions([L EXCEPT !.sprites =
    [t \in OnScene(b) |-> IF t \in DOMAIN L.sprites
                          THEN applyTokenData(L.sprites[t], b[t].at)
                          ELSE createSprite(b[t].at)]])

setTokenDragPreview(L, t, place) ==
  IF t \notin DOMAIN L.sprites THEN L
  ELSE [L EXCEPT !.sprites[t].at = place, !.sprites[t].dragging = TRUE]

clearTokenDragPreview(L, t) ==
  IF t \notin DOMAIN L.sprites THEN L
  ELSE [L EXCEPT !.sprites[t] = createSprite(@.committed)]

setSelection(L, ids) ==
  [L EXCEPT !.outlines =
    [t \in ids \cap (DOMAIN L.sprites \cup DOMAIN L.outlines) |->
       IF t \in DOMAIN L.sprites THEN L.sprites[t].at ELSE L.outlines[t]]]

setHover(L, t) ==
  IF t = L.hoverId THEN L
  ELSE [L EXCEPT !.hoverId = t,
                 !.hoverAt = IF t \in DOMAIN L.sprites THEN L.sprites[t].at ELSE Nowhere]

setMarqueeRect(L, drawn) == [L EXCEPT !.marquee = drawn]

(* The effects that run: those of the stores written to, and that of the       *)
(* hovered token when it is another.                                           *)
Effects(L, written) ==
  LET tokensDone    == IF "tokens" \in written THEN updateTokens(L, board') ELSE L
      selectionDone == IF "selection" \in written THEN setSelection(tokensDone, selected')
                       ELSE tokensDone
  IN IF hovered' = hovered THEN selectionDone ELSE setHover(selectionDone, hovered')

Flush(L, written) == layers' = IF HasRenderer THEN Effects(L, written) ELSE NoLayers

------------------------------------------------------------------------------
(* MainCanvas is mounted: the renderer is imported, then started, and only     *)
(* then the controller is attached.                                            *)

MountCanvas ==
  /\ stage = "unmounted" /\ stage' = "creating"
  /\ abandoned + applications < MaxRenderers
  /\ UNCHANGED <<board, selected, hovered, gesture, layers, abandoned, applications>>

(* The assignment of renderer runs every effect.                               *)
RendererCreated ==
  /\ stage = "creating" /\ stage' = "starting"
  /\ layers' = setHover(setSelection(updateTokens(NoLayers, board), selected), hovered)
  /\ UNCHANGED <<board, selected, hovered, gesture, abandoned, applications>>

RendererReady ==
  /\ stage = "starting" /\ stage' = "ready"
  /\ applications' = applications + 1
  /\ UNCHANGED <<board, selected, hovered, gesture, layers, abandoned>>

(* dispose() destroys the application if init has assigned it; an import that  *)
(* ends after the page was left fails, because the canvas element is gone.     *)
UnmountCanvas ==
  /\ stage # "unmounted" /\ stage' = "unmounted"
  /\ gesture' = IdleGesture /\ layers' = NoLayers
  /\ abandoned' = IF stage = "starting" THEN abandoned + 1 ELSE abandoned
  /\ applications' = IF stage = "ready" THEN applications - 1 ELSE applications
  /\ UNCHANGED <<board, selected, hovered>>

(* init of a renderer already disposed of comes to its end.                    *)
AbandonedReady ==
  /\ abandoned > 0
  /\ abandoned' = abandoned - 1 /\ applications' = applications + 1
  /\ UNCHANGED <<board, selected, hovered, stage, gesture, layers>>

------------------------------------------------------------------------------
(* Pointer events. hit is the token under the pointer, or NoToken.             *)

hitTestToken == DOMAIN layers.sprites \cup {NoToken}

Begins(mode, p, t) ==
  gesture' = [mode |-> mode, pointer |-> p, token |-> t, started |-> FALSE]

MiddleDown(p) ==
  /\ stage = "ready" /\ gesture.mode = "idle"
  /\ Begins("panning", p, NoToken)
  /\ hovered' = NoToken
  /\ UNCHANGED <<board, selected, stage, abandoned, applications>>
  /\ Flush(layers, {})

(* canDragToken may refuse, and then nothing happens.                          *)
LeftDownOnToken(p, hit) ==
  /\ stage = "ready" /\ gesture.mode = "idle"
  /\ Begins("tokenDragging", p, hit)
  /\ hovered' = NoToken
  /\ UNCHANGED <<board, selected, stage, abandoned, applications>>
  /\ Flush(layers, {})

ShiftDownOnToken(hit) ==
  /\ stage = "ready" /\ gesture.mode = "idle"
  /\ selected' = selected \cup {hit}
  /\ UNCHANGED <<board, hovered, stage, gesture, abandoned, applications>>
  /\ Flush(layers, IF hit \in selected THEN {} ELSE {"selection"})

LeftDownOnCanvas(p) ==
  /\ stage = "ready" /\ gesture.mode = "idle"
  /\ Begins("marqueeSelecting", p, NoToken)
  /\ UNCHANGED <<board, selected, hovered, stage, layers, abandoned, applications>>

PointerDown(p) ==
  \/ MiddleDown(p)
  \/ \E hit \in DOMAIN layers.sprites : LeftDownOnToken(p, hit) \/ ShiftDownOnToken(hit)
  \/ LeftDownOnCanvas(p)

HoverMoves(hit) ==
  /\ stage = "ready" /\ gesture.mode = "idle"
  /\ hovered' = hit
  /\ UNCHANGED <<board, selected, stage, gesture, abandoned, applications>>
  /\ Flush(layers, {})

In(mode, p) == gesture.mode = mode /\ gesture.pointer = p

(* Beyond the threshold the sprite is shown under the pointer.                 *)
DragMoves(p, place) ==
  /\ In("tokenDragging", p)
  /\ gesture' = [gesture EXCEPT !.started = TRUE]
  /\ layers' = setTokenDragPreview(layers, gesture.token, place)
  /\ UNCHANGED <<board, selected, hovered, stage, abandoned, applications>>

(* A rectangle without an area is not drawn.                                   *)
MarqueeMoves(p, drawn) ==
  /\ In("marqueeSelecting", p)
  /\ layers' = setMarqueeRect(layers, drawn)
  /\ UNCHANGED <<board, selected, hovered, stage, gesture, abandoned, applications>>

(* The rectangle covers the places in area, and selects among all the tokens   *)
(* the client has, those of other scenes included.                             *)
MarqueeUp(p, area) ==
  /\ In("marqueeSelecting", p)
  /\ selected' = {t \in DOMAIN board : board[t].at \in area}
  /\ gesture' = IdleGesture
  /\ UNCHANGED <<board, hovered, stage, abandoned, applications>>
  /\ Flush(setMarqueeRect(layers, FALSE), {"selection"})

PanUp(p) ==
  /\ In("panning", p)
  /\ gesture' = IdleGesture
  /\ UNCHANGED <<board, selected, hovered, stage, layers, abandoned, applications>>

(* moveTokenOptimistic, of a token that may be gone or on another scene; the   *)
(* dispatch of the move is that of Release in ClientMirror.                    *)
DropToken(p, place) ==
  /\ In("tokenDragging", p) /\ gesture.started
  /\ board' = IF gesture.token \in DOMAIN board
              THEN [board EXCEPT ![gesture.token].at = place] ELSE board
  /\ gesture' = IdleGesture
  /\ UNCHANGED <<selected, hovered, stage, abandoned, applications>>
  /\ Flush(clearTokenDragPreview(layers, gesture.token),
           IF gesture.token \in DOMAIN board THEN {"tokens"} ELSE {})

(* Released before the threshold: a click.                                     *)
ClickToken(p) ==
  /\ In("tokenDragging", p) /\ ~gesture.started
  /\ selected' = {gesture.token}
  /\ gesture' = IdleGesture
  /\ UNCHANGED <<board, hovered, stage, abandoned, applications>>
  /\ Flush(layers, {"selection"})

(* A plausible bug: the preview is cleared only when a drag is committed.      *)
CancelKeepsPreview(p) ==
  /\ gesture.mode # "idle" /\ gesture.pointer = p
  /\ gesture' = IdleGesture
  /\ hovered' = IF gesture.mode = "marqueeSelecting" THEN hovered ELSE NoToken
  /\ UNCHANGED <<board, selected, stage, abandoned, applications>>
  /\ Flush(setMarqueeRect(layers, FALSE), {})

PointerCancel(p) ==
  /\ gesture.mode # "idle" /\ gesture.pointer = p
  /\ gesture' = IdleGesture
  /\ hovered' = IF gesture.mode = "marqueeSelecting" THEN hovered ELSE NoToken
  /\ UNCHANGED <<board, selected, stage, abandoned, applications>>
  /\ Flush(IF gesture.mode = "marqueeSelecting" THEN setMarqueeRect(layers, FALSE)
           ELSE IF gesture.started THEN clearTokenDragPreview(layers, gesture.token)
           ELSE layers, {})

(* Escape with the focus on the canvas.                                        *)
Deselect ==
  /\ stage # "unmounted"
  /\ selected' = {}
  /\ UNCHANGED <<board, hovered, stage, gesture, abandoned, applications>>
  /\ Flush(layers, IF selected = {} THEN {} ELSE {"selection"})

------------------------------------------------------------------------------
(* Events and views of the server, and moves taken back, change the tokens the *)
(* client has, in whatever the controller is; ClientMirror says which.         *)

TokensWritten(b) ==
  /\ board' = b
  /\ UNCHANGED <<selected, hovered, stage, gesture, abandoned, applications>>
  /\ Flush(layers, {"tokens"})

BoardChanges ==
  \/ \E t \in CanvasTokens, place \in Places, here \in BOOLEAN :
       TokensWritten([u \in DOMAIN board \cup {t} |->
                        IF u = t THEN [at |-> place, here |-> here] ELSE board[u]])
  \/ \E t \in DOMAIN board : TokensWritten([u \in DOMAIN board \ {t} |-> board[u]])
  \/ TokensWritten([t \in DOMAIN board |-> [board[t] EXCEPT !.here = ~@]])

CanvasNext ==
  \/ MountCanvas \/ RendererCreated \/ RendererReady \/ UnmountCanvas \/ AbandonedReady
  \/ \E p \in Pointers :
       \/ PointerDown(p) \/ PanUp(p) \/ ClickToken(p) \/ PointerCancel(p)
       \/ \E place \in Places : DragMoves(p, place) \/ DropToken(p, place)
       \/ \E drawn \in BOOLEAN : MarqueeMoves(p, drawn)
       \/ \E area \in SUBSET Places : MarqueeUp(p, area)
  \/ \E hit \in hitTestToken : HoverMoves(hit)
  \/ Deselect \/ BoardChanges

CanvasSpec == CanvasInit /\ [][CanvasNext]_canvasVars

------------------------------------------------------------------------------
(* Properties *)

(* The canvas is what the stores say: the tokens of the active scene and no    *)
(* others, each where the client has it unless it is in the hand, and outlines *)
(* only of tokens that are there and selected or hovered. Also after a drag    *)
(* during which the server moved, deleted or made the token again, and after   *)
(* the page was left and entered again.                                        *)
CanvasShowsStores ==
  HasRenderer =>
    /\ DOMAIN layers.sprites = OnScene(board)
    /\ \A t \in DOMAIN layers.sprites :
         ~layers.sprites[t].dragging => layers.sprites[t].at = board[t].at
    /\ DOMAIN layers.outlines \subseteq selected \cap OnScene(board)
    /\ layers.hoverAt # Nowhere =>
         layers.hoverId = hovered /\ hovered \in OnScene(board)

(* A sprite is out of its place only while the pointer that grabbed it drags   *)
(* it, and a rectangle is drawn only while one is being pulled open: however   *)
(* a gesture ends and whatever the server did meanwhile.                       *)
GesturesCleanUp ==
  /\ \A t \in DOMAIN layers.sprites : layers.sprites[t].dragging =>
       gesture.mode = "tokenDragging" /\ gesture.started /\ gesture.token = t
  /\ layers.marquee => gesture.mode = "marqueeSelecting"

(* What one would expect and the code does not do; the README says which       *)
(* configuration shows it.                                                     *)

(* SelectionLayer.ts: ghosts are "positioned identically to their source       *)
(* sprites in world space", once no gesture is going on.                       *)
OutlinesFollow ==
  gesture = IdleGesture =>
    \A t \in DOMAIN layers.outlines \cap DOMAIN layers.sprites :
      layers.outlines[t] = layers.sprites[t].at

(* Every selected token on the canvas has its outline.                         *)
SelectionIsShown ==
  stage = "ready" => selected \cap DOMAIN layers.sprites \subseteq DOMAIN layers.outlines

(* A token that is selected is one the user could see.                         *)
MarqueeSelectsVisible ==
  [][\A p \in Pointers, area \in SUBSET Places :
       MarqueeUp(p, area) => selected' \subseteq OnScene(board)]_canvasVars

(* A page that was left holds no renderer.                                     *)
RendererDisposed == stage = "unmounted" /\ abandoned = 0 => applications = 0
==============================================================================
