--------------------------- MODULE LayeredContext ---------------------------
(***************************************************************************)
(* LayeredContext: nested `with` blocks of which only the outermost ones,  *)
(* max_layers at most, enter and leave the object it wraps.                *)
(*                                                                         *)
(* virtual_layer is counted before the object is entered, layer after, so  *)
(* that an enter that raises or waits leaves the two apart.                *)
(***************************************************************************)
EXTENDS Integers

NoLayers == [layer |-> 0, virtual |-> 0, contexts |-> 0]

VirtEnter(l) == [l EXCEPT !.virtual = @ + 1]

(* enter and aenter enter the object, or return the current context. *)
EntersObject(l, max_layers) == max_layers = 0 \/ l.layer < max_layers
Entered(l) == [l EXCEPT !.layer = @ + 1, !.contexts = @ + 1]

(* exit and aexit: nothing unless a block was entered; the object is left  *)
(* once fewer blocks are open than layers.                                 *)
VirtExit(l) == IF l.virtual < 1 THEN l ELSE [l EXCEPT !.virtual = @ - 1]
LeavesEarly(l) == l.virtual >= 1 /\ l.virtual - 1 <= l.layer
LeavesObject(l) == l.virtual >= 1 /\ l.virtual - 1 < l.layer

(* layer_contexts.pop(layer), where a negative index counts from the end.  *)
PopFails(l) == l.layer > l.contexts \/ l.layer <= -l.contexts
Exited(l) == [l EXCEPT !.layer = @ - 1, !.contexts = IF PopFails(l) THEN @ ELSE @ - 1]

=============================================================================
