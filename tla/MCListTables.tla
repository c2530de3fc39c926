---------------------------- MODULE MCListTables ----------------------------
(* The two kinds of tables that are one list, each with four two-byte keys: an *)
(* exact table, of which every set of keys is reached, and a ternary one, under *)
(* all four masks.  They share nothing, so only one of them is in use at a time: *)
(* the exact one while the other is empty, the ternary one until there is a call *)
(* on the exact one.  Ternary values are only ever compared for equality, so    *)
(* they are interchangeable.                                                    *)
EXTENDS ExactTable, TernaryTable

TablesInit == Init /\ TernaryInit

ExactInUse   == /\ entries = <<>>
                /\ Next /\ UNCHANGED ternaryVars
TernaryInUse == /\ call.op = "nothing" /\ default_val = CHOOSE v \in Value : TRUE
                /\ TernaryNext /\ UNCHANGED vars

TablesSpec == TablesInit /\ [][ExactInUse \/ TernaryInUse]_<<vars, ternaryVars>>

ValueSymmetry == Permutations(TernaryValue)
=============================================================================
