----------------------------- MODULE TypeStore -----------------------------
(***************************************************************************)
(* The store inference solves types in (ty.rs): a slot per variable, which *)
(* is unbound at some level or bound to a type, a trail of what each write *)
(* to a slot replaced, and the level of the binding being inferred. An     *)
(* operator takes a store and gives the store it leaves.                   *)
(***************************************************************************)
EXTENDS Integers, Sequences, FiniteSets, SequencesExt

Var(v) == [var |-> v]
Con(con, args) == [con |-> con, args |-> args]
IsVar(ty) == "var" \in DOMAIN ty

Unbound(level) == [bound |-> FALSE, level |-> level]
Bound(ty) == [bound |-> TRUE, ty |-> ty]

\* A store is its slots, its trail and its level.
New == [slots |-> <<>>, trail |-> <<>>, level |-> 1]

Fresh(st) == [st EXCEPT !.slots = Append(@, Unbound(st.level))]
EnterLevel(st) == [st EXCEPT !.level = @ + 1]
ExitLevel(st) == [st EXCEPT !.level = @ - 1]

\* A write that nothing can undo.
SetSlotUntrailed(st, v, slot) == [st EXCEPT !.slots[v] = slot]

SetSlot(st, v, slot) ==
  [st EXCEPT !.trail = Append(@, [var |-> v, old |-> st.slots[v]]),
             !.slots[v] = slot]

Snapshot(st) == Len(st.trail)

RECURSIVE RollbackTo(_, _)
RollbackTo(st, snapshot) ==
  IF Len(st.trail) <= snapshot THEN st
  ELSE RollbackTo([st EXCEPT !.trail = Front(@),
                             !.slots[Last(st.trail).var] = Last(st.trail).old],
                  snapshot)

(***************************************************************************)
(* Resolving follows bound variables to an unbound one or a constructor,   *)
(* and writes what it found in every slot it passed.                       *)
(***************************************************************************)
RECURSIVE Root(_, _)
Root(st, ty) ==
  IF IsVar(ty) /\ st.slots[ty.var].bound THEN Root(st, st.slots[ty.var].ty)
  ELSE ty

RECURSIVE Compress(_, _)
Compress(st, ty) ==
  IF IsVar(ty) /\ st.slots[ty.var].bound
  THEN SetSlot(Compress(st, st.slots[ty.var].ty), ty.var, Bound(Root(st, ty)))
  ELSE st

RECURSIVE ResolveDeep(_, _)
ResolveDeep(st, ty) ==
  LET root == Root(st, ty)
  IN IF IsVar(root) THEN root
     ELSE [root EXCEPT !.args = [i \in DOMAIN @ |-> ResolveDeep(st, @[i])]]

RECURSIVE VarsOf(_)
VarsOf(ty) == IF IsVar(ty) THEN {ty.var}
              ELSE UNION {VarsOf(ty.args[i]) : i \in DOMAIN ty.args}

(***************************************************************************)
(* Unifying: the answer is whether it went well, and the store with what   *)
(* was bound until then. Binding a variable first sees that it is not in   *)
(* the type, and lowers the level of what is.                              *)
(***************************************************************************)

RECURSIVE OccursAndAdjust(_, _, _, _)
OccursAndAdjust(st, v, level, ty) ==
  LET root == Root(st, ty)
      seen == Compress(st, ty)
      More(acc, arg) == IF acc.ok THEN OccursAndAdjust(acc.st, v, level, arg)
                        ELSE acc
  IN IF ~IsVar(root)
     THEN FoldLeft(More, [ok |-> TRUE, st |-> seen], root.args)
     ELSE [ok |-> root.var # v,
           st |-> IF root.var # v /\ seen.slots[root.var].level > level
                  THEN SetSlot(seen, root.var, Unbound(level)) ELSE seen]

Bind(st, v, ty) ==
  LET looked == OccursAndAdjust(st, v, st.slots[v].level, ty)
  IN IF looked.ok
     THEN [ok |-> TRUE, st |-> SetSlot(looked.st, v, Bound(ty))]
     ELSE looked

RECURSIVE Unify(_, _, _)
Unify(st, left, right) ==
  LET seen == Compress(Compress(st, left), right)
      a == Root(st, left)
      b == Root(st, right)
      More(acc, i) == IF acc.ok THEN Unify(acc.st, a.args[i], b.args[i]) ELSE acc
  IN CASE IsVar(a) -> IF a = b THEN [ok |-> TRUE, st |-> seen]
                      ELSE Bind(seen, a.var, b)
       [] ~IsVar(a) /\ IsVar(b) -> Bind(seen, b.var, a)
       [] OTHER ->
            IF a.con # b.con \/ Len(a.args) # Len(b.args)
            THEN [ok |-> FALSE, st |-> seen]
            ELSE FoldLeft(More, [ok |-> TRUE, st |-> seen],
                          [i \in DOMAIN a.args |-> i])

TryUnify(st, a, b) ==
  LET tried == Unify(st, a, b)
  IN IF tried.ok THEN tried
     ELSE [ok |-> FALSE, st |-> RollbackTo(tried.st, Snapshot(st))]

\* A candidate tried and undone, whatever came of it.
Trial(st, a, b) ==
  RollbackTo(TryUnify(st, a, b).st, Snapshot(st))

(***************************************************************************)
(* Generalising quantifies what was made inside the level, and a use of    *)
(* the scheme has fresh variables in place of what is quantified.          *)
(***************************************************************************)

Generalize(st, ty) ==
  {v \in VarsOf(ResolveDeep(st, ty)) : st.slots[v].level > st.level}

RECURSIVE SubstVars(_, _, _)
SubstVars(st, ty, map) ==
  LET root == Root(st, ty)
  IN IF IsVar(root) THEN IF root.var \in DOMAIN map THEN map[root.var] ELSE root
     ELSE [root EXCEPT !.args = [i \in DOMAIN @ |-> SubstVars(st, @[i], map)]]

Instantiate(st, vars, ty) ==
  LET order == SetToSeq(vars)
      Next(s, v) == Fresh(s)
      made == FoldLeft(Next, st, order)
      map == [v \in vars |->
                Var(Len(st.slots) + CHOOSE i \in DOMAIN order : order[i] = v)]
  IN [st |-> made, ty |-> SubstVars(made, ty, map)]

(***************************************************************************)
(* A run of the store: an outer variable, two inside a deeper level, and   *)
(* then what inference asks of it, one equation at a time. `keep` says     *)
(* whether the equation is kept or was a candidate's, tried and undone.    *)
(***************************************************************************)
Begun == Fresh(Fresh(EnterLevel(Fresh(New))))
Variables == 1 .. 3

Asked(st, ask) ==
  IF ask.keep THEN TryUnify(st, ask.a, ask.b).st ELSE Trial(st, ask.a, ask.b)

After(asks) == FoldLeft(Asked, Begun, asks)

RECURSIVE At(_, _)
At(ty, assigned) ==
  IF IsVar(ty) THEN assigned[ty.var]
  ELSE [ty EXCEPT !.args = [i \in DOMAIN @ |-> At(@[i], assigned)]]

Holds(asks, assigned) ==
  \A i \in DOMAIN asks : At(asks[i].a, assigned) = At(asks[i].b, assigned)

\* The equations that were kept and could be.
Kept(asks) ==
  LET Step(acc, ask) ==
        LET tried == TryUnify(acc.st, ask.a, ask.b)
        IN IF ask.keep /\ tried.ok
           THEN [st |-> tried.st, kept |-> Append(acc.kept, ask)]
           ELSE [st |-> Asked(acc.st, ask), kept |-> acc.kept]
  IN FoldLeft(Step, [st |-> Begun, kept |-> <<>>], asks).kept

(***************************************************************************)
(* The store knows what it was told and no more: an assignment of ground   *)
(* types to the variables satisfies the equations that were kept exactly   *)
(* when it agrees with what each variable resolves to; so an equation that *)
(* was refused, or was a trial, has left no trace, and one is refused only *)
(* if nothing satisfies it and those before. A variable is quantified at   *)
(* the outer level only if no outer variable's type holds it.              *)
(***************************************************************************)
StoreIsSound(asks, ground) ==
  LET st == After(asks)
      kept == Kept(asks)
      Assignments == [Variables -> ground]
      Agrees(f) == \A v \in Variables : f[v] = At(ResolveDeep(st, Var(v)), f)
      outer == ExitLevel(st)
      last == Last(asks)
      before == After(Front(asks))
  IN /\ \A f \in Assignments : Holds(kept, f) = Agrees(f)
     /\ TryUnify(before, last.a, last.b).ok
          = \E f \in Assignments :
              Holds(Append(Kept(Front(asks)), last), f)
     /\ \A v \in Variables \ {1} :
          Generalize(outer, Var(v)) \cap VarsOf(ResolveDeep(st, Var(1))) = {}
     /\ \A v \in Variables \ {1} :
          LET all == VarsOf(ResolveDeep(st, Var(v)))
              free == Generalize(outer, Var(v))
              used == Instantiate(outer, free, Var(v))
          IN /\ all \ free \subseteq VarsOf(ResolveDeep(st, Var(1)))
             /\ VarsOf(ResolveDeep(used.st, used.ty)) \cap all = all \ free
=============================================================================
