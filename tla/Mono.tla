-------------------------------- MODULE Mono --------------------------------
(***************************************************************************)
(* Monomorphisation (mono.rs): from the entry point, one copy of a         *)
(* function for each substitution of its quantified variables it is used   *)
(* under. A copy is known by the function and how the types it is used at  *)
(* are shown (ty.rs).                                                      *)
(*                                                                         *)
(* A function is its quantified variables, whether it is a `fn` literal    *)
(* inside another, the types its body mentions and the functions it uses,  *)
(* each at type arguments: calls, the cases of a dispatched call, literals *)
(* and the services it spawns.                                             *)
(***************************************************************************)
EXTENDS Integers, Sequences, FiniteSets, SequencesExt, Functions

Base(name) == [con |-> name, args |-> <<>>]
Of(con, ty) == [con |-> con, args |-> <<ty>>]
Variable(v) == [var |-> v]
\* A struct has an id; two modules may declare one of the same name.
Strukt(id, name) == [con |-> name, args |-> <<>>, id |-> id]
IsVariable(ty) == "var" \in DOMAIN ty

RECURSIVE SubstTo(_, _)
SubstTo(ty, subst) ==
  IF IsVariable(ty) THEN IF ty.var \in DOMAIN subst THEN subst[ty.var] ELSE ty
  ELSE [ty EXCEPT !.args = [i \in DOMAIN @ |-> SubstTo(@[i], subst)]]

\* An error set nothing decided is closed, to the empty set.
RECURSIVE CloseErrorSets(_)
CloseErrorSets(ty) ==
  IF IsVariable(ty) THEN IF ty.var = "errors" THEN Base("{}") ELSE ty
  ELSE [ty EXCEPT !.args = [i \in DOMAIN @ |-> CloseErrorSets(@[i])]]

RECURSIVE Unresolved(_)
Unresolved(ty) ==
  IsVariable(ty) \/ \E i \in DOMAIN ty.args : Unresolved(ty.args[i])

Apply(ty, subst) == CloseErrorSets(SubstTo(ty, subst))

RECURSIVE Show(_)
Show(ty) ==
  IF IsVariable(ty) THEN [con |-> "_", args |-> <<>>]
  ELSE [con |-> ty.con, args |-> [i \in DOMAIN ty.args |-> Show(ty.args[i])]]

KeyOf(subst) == [v \in DOMAIN subst |-> Show(subst[v])]

\* A mono is what it has made, what that is known by, and what is to be built.
Specialize(mono, src, subst) ==
  LET key == <<src, KeyOf(subst)>>
  IN IF key \in DOMAIN mono.cache THEN mono
     ELSE LET id == Len(mono.out) + 1
          IN [mono EXCEPT
                !.out = Append(@, [src |-> src, subst |-> subst, to |-> <<>>]),
                !.cache = (key :> id) @@ @,
                !.pending = Append(@, id)]

\* A literal that takes on only its own variables.
CalleeSubstOwn(program, callee, targs, caller) ==
  LET vars == program[callee].vars
  IN [v \in Range(vars) |->
        Apply(targs[CHOOSE i \in DOMAIN vars : vars[i] = v], caller)]

CalleeSubst(program, callee, targs, caller) ==
  LET vars == program[callee].vars
      own == [v \in Range(vars) |->
                Apply(targs[CHOOSE i \in DOMAIN vars : vars[i] = v], caller)]
  IN IF program[callee].closure THEN own @@ caller ELSE own

\* Every service is emitted once, all of it, under no substitution.
SpecializeService(mono, service) ==
  IF service \in mono.spawned THEN mono
  ELSE FoldLeft(LAMBDA m, f : Specialize(m, f, <<>>),
                [mono EXCEPT !.spawned = @ \cup {service}], service)

\* A type argument nothing decides is noted where the use is, like the types
\* of the body are.
RewriteUse(program, mono, new, use) ==
  IF use.kind = "spawn" THEN SpecializeService(mono, use.service)
  ELSE LET subst == CalleeSubst(program, use.func, use.targs,
                                mono.out[new].subst)
           made == Specialize(mono, use.func, subst)
           targs == {Apply(ty, mono.out[new].subst) : ty \in Range(use.targs)}
       IN [made EXCEPT !.out[new].to =
             Append(@, made.cache[<<use.func, KeyOf(subst)>>]),
           !.refused = @ \/ \E ty \in targs : Unresolved(ty)]

Build(program, mono, new) ==
  LET def == program[mono.out[new].src]
      built == FoldLeft(LAMBDA m, use : RewriteUse(program, m, new, use),
                        mono, def.uses)
      types == [i \in DOMAIN def.types |-> Apply(def.types[i],
                                                  mono.out[new].subst)]
  IN [built EXCEPT !.out[new] =
        [src |-> @.src, subst |-> @.subst, to |-> @.to, types |-> types],
        !.refused = @ \/ \E i \in DOMAIN types : Unresolved(types[i])]

RECURSIVE Drain(_, _)
Drain(program, mono) ==
  IF mono.pending = <<>> THEN mono
  ELSE Drain(program, Build(program, [mono EXCEPT !.pending = Front(@)],
                            Last(mono.pending)))

Monomorphize(program) ==
  Drain(program, Specialize([out |-> <<>>, cache |-> <<>>, pending |-> <<>>,
                             spawned |-> {}, refused |-> FALSE], 1, <<>>))

(***************************************************************************)
(* What the code generator is given when nothing was refused: every type   *)
(* is concrete, those every copy is made for too; every use goes to a copy *)
(* of the function it names, made for the very types that use is at, a     *)
(* literal's enclosing ones included; and every function of a spawned      *)
(* service has a copy. What is refused uses a function at types nothing    *)
(* decides.                                                                *)
(***************************************************************************)
SpecialisedAtItsTypes(program) ==
  LET mono == Monomorphize(program)
      Calls(o) == SelectSeq(program[o.src].uses, LAMBDA u : u.kind = "call")
  IN IF mono.refused
     THEN \E o \in Range(mono.out) : \E use \in Range(Calls(o)) :
            \E ty \in Range(use.targs) : Unresolved(Apply(ty, o.subst))
     ELSE
       \A id \in DOMAIN mono.out :
         LET o == mono.out[id]
             uses == Calls(o)
         IN /\ \A i \in DOMAIN o.types : ~Unresolved(o.types[i])
            /\ \A ty \in Range(o.subst) : ~Unresolved(ty)
            /\ Len(o.to) = Len(uses)
            /\ \A i \in DOMAIN uses :
                 LET made == mono.out[o.to[i]]
                     def == program[uses[i].func]
                 IN /\ made.src = uses[i].func
                    /\ \A j \in DOMAIN def.vars :
                         made.subst[def.vars[j]]
                           = Apply(uses[i].targs[j], o.subst)
                    /\ def.closure =>
                         \A v \in DOMAIN o.subst \ Range(def.vars) :
                           made.subst[v] = o.subst[v]
            /\ \A u \in Range(program[o.src].uses) :
                 u.kind = "spawn" =>
                   \A f \in Range(u.service) :
                     \E other \in DOMAIN mono.out : mono.out[other].src = f
=============================================================================
