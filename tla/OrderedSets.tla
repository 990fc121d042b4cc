---------------------------- MODULE OrderedSets ----------------------------
(***************************************************************************)
(* The ordered collections side by side: a behaviour has one of an AVL     *)
(* tree, a binary tree, and an ordered map over an AVL tree.               *)
(***************************************************************************)
EXTENDS Trees

CONSTANTS MapKeys, Vals,   (* the keys and values of the map                *)
          MapSources       (* the entries an iterator handed to it yields   *)

ASSUME OrderedSetsAssumption ==
  /\ MapKeys \subseteq Nat \ {0} /\ MapSources \subseteq Seq(MapKeys \X Vals)
  /\ Nil \notin {"none", "OK", "OOM", "DUPLICATE", "NOT_FOUND", "INVALID", "yes", "no"}
  /\ Nil \notin Seq(MapKeys \X Vals)

VARIABLES which, mRoot, mLen, mExists, mPhase, mCall, mFeed, mResult, mFound, mBlocks

OM == INSTANCE OMap WITH Keys <- MapKeys, Sources <- MapSources,
        root <- mRoot, len <- mLen, exists <- mExists, phase <- mPhase, call <- mCall,
        feed <- mFeed, result <- mResult, found <- mFound, blocks <- mBlocks

mapVars  == <<mRoot, mLen, mExists, mPhase, mCall, mFeed, mResult, mFound, mBlocks>>
all      == <<which, vars, mapVars>>

AnyInit == which \in {"trees", "map"} /\ Init /\ OM!Init
AnyNext ==
  /\ UNCHANGED which
  /\ \/ which = "trees" /\ Next /\ UNCHANGED mapVars
     \/ which = "map" /\ OM!Next /\ UNCHANGED vars
AnySpec == AnyInit /\ [][AnyNext]_all

-----------------------------------------------------------------------------
(* The trees of the sets and of the map stay search trees, and their nodes *)
(* are as many as they count and as have been allocated and not freed.     *)
TreesOrdered == SearchOrder /\ CountsAgree /\ OM!TreeOK

(* avl_t and bstree_t implement SetSpec: an add, a remove or an extend     *)
(* changes its own set only, by exactly the key it was called with, and no *)
(* other key goes when a node with two children takes over its             *)
(* successor's; min and max return the least and the greatest.             *)
Sets == INSTANCE SetSpec
          WITH contents <- [n \in Names |-> KeysOf(root[n])],
               busy <- Busy,
               want <- IF Feeding THEN KeysOf(root[Busy]) \cup Range(feed) ELSE {},
               result <- IF ret = Nil THEN "none" ELSE ret
SetsImplemented == Sets!Spec

(* omap_t implements a map.                                                *)
MapImplemented == OM!ImplementsMap
=============================================================================
