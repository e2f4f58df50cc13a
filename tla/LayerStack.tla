----------------------------- MODULE LayerStack -----------------------------
(***************************************************************************)
(* LayerStack and MapLayer::validate: the layers of a map, kept in the     *)
(* order in which they are drawn. RendererWorker has the renderer's use of *)
(* them, for which their order makes no difference yet. URL templates are  *)
(* left out.                                                               *)
(***************************************************************************)
EXTENDS Integers, Sequences, FiniteSets, SequencesExt

CONSTANTS
  Layers,       \* bound: the layers this instance's callers add
  LayerIds,     \* bound: the ids they name; numbers, in the order of the names
  Opacities,    \* bound: the opacities they set; "refused" is not in [0, 1]
  MaxLayerZoom  \* 30

VARIABLE layers

MapLayer ==
  [id : LayerIds, kind : {"tile", "vector", "marker"}, zIndex : Int,
   visible : BOOLEAN, opacity : Opacities, minZoom : Nat, maxZoom : Nat]

ASSUME StackAssumption ==
  /\ LayerIds \subseteq Int
  /\ \A layer \in Layers : layer \in MapLayer

StackInit == layers = <<>>

ValidLayer(layer) ==
  /\ layer.opacity # "refused"
  /\ layer.kind = "tile" =>
       layer.minZoom <= layer.maxZoom /\ layer.maxZoom <= MaxLayerZoom

(* The order of sort_layers: tile layers below all others of their z-index,*)
(* and markers above vectors.                                              *)
Height == [tile |-> 0, vector |-> 1, marker |-> 2]

Below(a, b) ==
  \/ a.zIndex < b.zIndex
  \/ a.zIndex = b.zIndex /\ Height[a.kind] < Height[b.kind]
  \/ a.zIndex = b.zIndex /\ a.kind = b.kind /\ a.id < b.id

Has(id) == \E i \in DOMAIN layers : layers[i].id = id
Position(id) ==
  CHOOSE i \in DOMAIN layers :
    layers[i].id = id /\ \A j \in 1..(i - 1) : layers[j].id # id

(* The i-th layer is the one that has i - 1 others below it.               *)
SortLayers(s) ==
  LET rank(i) == 1 + Cardinality({j \in DOMAIN s : Below(s[j], s[i])})
  IN [place \in DOMAIN s |-> s[CHOOSE i \in DOMAIN s : rank(i) = place]]

(* A layer takes the place of the one with its id, whatever kind that was. *)
AddOrReplace(layer) ==
  /\ ValidLayer(layer)
  /\ layers' = SortLayers(IF Has(layer.id)
                          THEN [layers EXCEPT ![Position(layer.id)] = layer]
                          ELSE Append(layers, layer))

(* Mutant of RemoveLayer: the last layer is moved to the place (swap_remove).*)
SwapRemove(id) ==
  /\ Has(id)
  /\ layers' = Front([layers EXCEPT ![Position(id)] = Last(layers)])

(* A layer that is not there is no error for remove, but one for the       *)
(* others; nothing changes.                                                *)
RemoveLayer(id) ==
  /\ Has(id)
  /\ layers' = RemoveAt(layers, Position(id))

SetVisible(id, visible) ==
  /\ Has(id)
  /\ layers' = [layers EXCEPT ![Position(id)].visible = visible]

SetOpacity(id, opacity) ==
  /\ opacity # "refused"
  /\ Has(id)
  /\ layers' = [layers EXCEPT ![Position(id)].opacity = opacity]

StackNext ==
  \/ \E layer \in Layers : AddOrReplace(layer)
  \/ \E id \in LayerIds :
       \/ RemoveLayer(id)
       \/ \E visible \in BOOLEAN : SetVisible(id, visible)
       \/ \E opacity \in Opacities : SetOpacity(id, opacity)

StackSpec == StackInit /\ [][StackNext]_layers

---------------------------------------------------------------------------
(* However layers are added, replaced by others of another kind or height, *)
(* changed and removed, each id has one layer, every layer is valid, and   *)
(* what is drawn later belongs above: the picture depends on the layers    *)
(* only, not on the calls that made them. Nothing but add_or_replace sorts.*)
StackInOrder ==
  \A i \in DOMAIN layers :
    /\ ValidLayer(layers[i])
    /\ \A j \in DOMAIN layers :
         i < j => layers[i].id # layers[j].id /\ Below(layers[i], layers[j])
===========================================================================
