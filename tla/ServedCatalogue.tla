---------------------------- MODULE ServedCatalogue ----------------------------
(***************************************************************************)
(* What readers of the product alias are promised, without seeds, requests *)
(* or physical names: at every instant one catalogue, which changes only   *)
(* by a document of some dataset being written into it, or by an atomic    *)
(* switch to the next version, holding exactly one dataset.                *)
(***************************************************************************)
EXTENDS Integers

CONSTANTS Generations, Products, Dataset, NoDoc

VARIABLES
    serving,   \* the version readers are served, 0 before there is one
    content    \* its documents: product -> the generation that wrote it

Nothing == [p \in Products |-> NoDoc]
Whole(g) == [p \in Products |-> IF p \in Dataset[g] THEN g ELSE NoDoc]
FirstContents == {Nothing} \cup {Whole(g) : g \in Generations}

Init ==
    \/ serving = 0 /\ content = Nothing
    \/ serving = 1 /\ content \in FirstContents

\* The alias appears, on an index somebody else may have loaded.
Provision ==
    /\ serving = 0
    /\ serving' = 1
    /\ content' \in FirstContents

Upsert(g, p) ==
    /\ serving # 0
    /\ p \in Dataset[g]
    /\ content' = [content EXCEPT ![p] = g]
    /\ UNCHANGED serving

Switch(g) ==
    /\ serving # 0
    /\ serving' = serving + 1
    /\ content' = Whole(g)

Next ==
    \/ Provision
    \/ \E g \in Generations : Switch(g) \/ \E p \in Products : Upsert(g, p)

Spec == Init /\ [][Next]_<<serving, content>>

=============================================================================
