---------------------------- MODULE PeerAssignment ----------------------------
(***************************************************************************)
(* Who watches whom: assign and observer_candidates of                     *)
(* src/src/controller/peers.rs.  Hosts are given in the order of their     *)
(* ids; `domain' gives what each depends on, transitively.                 *)
(***************************************************************************)
EXTENDS Naturals, Sequences, Functions, FiniteSets

ObserverCandidates(order, isObserver) == SelectSeq(order, LAMBDA h : h \in isObserver)

Smaller(a, b) == IF a < b THEN a ELSE b

(* An entity cannot vouch for itself.                                      *)
Others(candidates, target) == SelectSeq(candidates, LAMBDA c : c # target)

SameDomain(candidates, domain, target) ==
    SelectSeq(Others(candidates, target), LAMBDA c : domain[c] \cap domain[target] # {})
DifferentDomain(candidates, domain, target) ==
    SelectSeq(Others(candidates, target), LAMBDA c : domain[c] # {} /\ domain[c] \cap domain[target] = {})
Independent(candidates, domain, target) ==
    SelectSeq(Others(candidates, target), LAMBDA c : domain[c] = {})

Rotate(items, by) ==
    IF items = <<>> THEN items
    ELSE LET k == by % Len(items) IN SubSeq(items, k + 1, Len(items)) \o SubSeq(items, 1, k)

UpTo(items, n) == SubSeq(items, 1, Smaller(n, Len(items)))

(* Faulty: one kind after the other until the degree is reached.           *)
ObserversFillingFirst(candidates, domain, degree, target, index) ==
    UpTo(Rotate(SameDomain(candidates, domain, target), index)
         \o Rotate(DifferentDomain(candidates, domain, target), index)
         \o Rotate(Independent(candidates, domain, target), index), degree)

(* One of each kind first, then whatever is left, up to the degree.        *)
Observers(candidates, domain, degree, target, index) ==
    LET same == Rotate(SameDomain(candidates, domain, target), index)
        different == Rotate(DifferentDomain(candidates, domain, target), index)
        independent == Rotate(Independent(candidates, domain, target), index)
        variety == UpTo(UpTo(same, 1) \o UpTo(different, 1) \o UpTo(independent, 1), degree)
        filler == SelectSeq(same \o different \o independent, LAMBDA c : c \notin Range(variety))
    IN variety \o UpTo(filler, degree - Len(variety))

Assign(targets, candidates, domain, degree) ==
    [i \in DOMAIN targets |->
        [target |-> targets[i], observers |-> Observers(candidates, domain, degree, targets[i], i - 1)]]

TargetsFor(plan, observer) ==
    {plan[i].target : i \in {j \in DOMAIN plan : observer \in Range(plan[j].observers)}}

=============================================================================
