-------------------------------- MODULE Trees --------------------------------
(***************************************************************************)
(* The generators a test may build, by what they are made of. A sort says  *)
(* which operations may be used without a filter ("all") and under those   *)
(* of clients() and nemesis(), which dt and next_time a Stagger may be     *)
(* built with and whether every mix needs a member that yields operations  *)
(* for ever.                                                               *)
(*                                                                         *)
(* Trees(sort)[n] has, for each filter, the generators of size at most n,  *)
(* and among them the endless ones. A wrapper is by one larger than what   *)
(* it wraps, a list, any or mix of k generators by k than the largest: so  *)
(* op and update only call what is smaller, also where op goes on with the *)
(* rest of a list, and what they make of a generator is no larger.         *)
(***************************************************************************)
EXTENDS Generator

Scopes == Filters \cup {"all"}
Spans  == {"any", "endless"}

\* With any Staggers and mixes.
Sort(all, under_clients, under_nemesis) ==
  [leaves |-> [scope \in Scopes |-> CASE scope = "all"     -> all
                                      [] scope = "clients" -> under_clients
                                      [] scope = "nemesis" -> under_nemesis],
   dts    |-> Int,
   times  |-> Int,
   mixes  |-> "any"]

\* The members of a list, any or mix of size n: smaller the more they are.
Members(t, n, scope, span, gens) ==
  /\ Len(gens) <= n
  /\ \A i \in 1 .. Len(gens) : gens[i] \in t[n - Len(gens)][scope]["any"]
  /\ span = "endless" => \E i \in 1 .. Len(gens) : gens[i] \in t[n - Len(gens)][scope]["endless"]

\* Is g of the sort? A function yields operations for ever, and what is around
\* it and does not cut it off. A generator under onThreads keeps to the filter.
Fits(sort, t, n, scope, span, g) ==
  CASE g.kind = "null"      -> span = "any"
    [] g.kind = "op"        -> span = "any" /\ g.op \in sort.leaves[scope]
    [] g.kind = "fun"       -> g.op \in sort.leaves[scope]
    [] g.kind = "list"      -> Members(t, n, scope, span, g.gens)
    [] g.kind = "any"       -> Members(t, n, scope, span, g.gens)
    [] g.kind = "mix"       -> /\ g.idx \in 1 .. Len(g.gens)
                               /\ Members(t, n, scope, span, g.gens)
                               /\ Members(t, n, scope, sort.mixes, g.gens)
    [] g.kind = "validate"  -> g.gen \in t[n - 1][scope][span]
    [] g.kind = "onThreads" -> scope \in {"all", g.filter} /\ g.gen \in t[n - 1][g.filter][span]
    [] g.kind = "timeLimit" -> span = "any" /\ g.gen \in t[n - 1][scope]["any"]
    [] g.kind = "stagger"   -> /\ g.dt \in sort.dts /\ g.next_time \in sort.times
                               /\ g.gen \in t[n - 1][scope][span]

\* t has the generators of the sizes below n.
TreesOver(sort, t, n) ==
  [scope \in Scopes |-> [span \in Spans |->
     {g \in NestedTo[n] : Fits(sort, t, n, scope, span, g)}]]

Trees(sort) == LET t[n \in Nat] == TreesOver(sort, [i \in 0 .. (n - 1) |-> t[i]], n) IN t

\* The plans of a sort.
PlansOf(sort) == Trees(sort)[Size]["all"]["any"]

-----------------------------------------------------------------------------
(***************************************************************************)
(* Lists of operations, also of such lists, in wrappers of some kinds.     *)
(***************************************************************************)
\* The elements of a list are in no wrapper.
ListsOver(lists, n) ==
  [kinds \in SUBSET Wrappers |->
     {g \in NestedTo[n] :
        \/ g.kind \in {"null", "op"}
        \/ g.kind = "list" /\ \A i \in DOMAIN g.gens : g.gens[i] \in lists[{}]
        \/ g.kind \in kinds /\ g.gen \in lists[kinds]}]

ListsTo[n \in Nat] == ListsOver(IF n = 0 THEN <<>> ELSE ListsTo[n - 1], n)
Lists(kinds) == ListsTo[Size][kinds]

\* The names of the operations, in the order of the list.
ListedOver(listed) ==
  [g \in Generators |->
     CASE g.kind = "op"       -> <<g.op.f>>
       [] g.kind = "list"     -> IF g.gens = <<>> THEN <<>>
                                 ELSE listed[g.gens[1]] \o listed[List(Tail(g.gens))]
       [] g.kind \in Wrappers -> listed[g.gen]
       [] OTHER               -> <<>>]

ListedAt[n \in Nat] == ListedOver(IF n = 0 THEN <<>> ELSE ListedAt[n - 1])
Listed(g) == ListedAt[Size][g]

-----------------------------------------------------------------------------
(***************************************************************************)
(* Generators without null pointers, but for those a list may hold, and    *)
(* without empty lists, which update makes null.                           *)
(***************************************************************************)
SolidOver(solid) ==
  {g \in Generators :
     \/ g.kind \in {"op", "fun"}
     \/ g.kind = "list" /\ g.gens # <<>> /\ \A i \in DOMAIN g.gens : g.gens[i] \in {Null} \cup solid
     \/ g.kind \in {"mix", "any"} /\ \A i \in DOMAIN g.gens : g.gens[i] \in solid
     \/ g.kind \in Wrappers /\ g.gen \in solid}

SolidTo[n \in Nat] == SolidOver(IF n = 0 THEN {} ELSE SolidTo[n - 1])
Solid == SolidTo[Size]
==============================================================================
