------------------------------ MODULE Structs ------------------------------
(***************************************************************************)
(* How the library's structures are put on the wire and taken from it.     *)
(*                                                                         *)
(* A class has attributes: the ones its constructor "need"s and the ones   *)
(* it "may" have (None when they are not given).  Its slots say how the    *)
(* code moves each attribute: the place on the wire it is at, the          *)
(* attribute it comes from and goes to, how it is written (w):             *)
(*   must  without a test, so that None raises    true  if it is truthy    *)
(*   set   if it is not None                      no    never              *)
(*   bad   if it is set, by an expression that raises                      *)
(*   used  not written, but used, so that None raises                      *)
(*   some  if it is not None, by an expression that makes a zero None      *)
(* how it is read (r):                                                     *)
(*   opt   None if the place is absent    raw   a zero value if absent     *)
(*   must  raises if absent               no    never                      *)
(*   fails raises if it is there                                           *)
(*   gate  the whole structure reads as None if absent                     *)
(* and the class of its value, if that is a structure (sub).               *)
(*                                                                         *)
(* Attributes hold None, a Zero (0, "", False, an empty list), a Given     *)
(* value, or a structure: nothing else decides what the code does.         *)
(***************************************************************************)
EXTENDS Naturals, FiniteSets, TLC

Atom == "an atom"
None == [atom |-> "None"]
Zero == [atom |-> "zero"]
Given == [atom |-> "given"]
Raised == [atom |-> "raised"]
Atoms == {None, Zero, Given, Raised}

Slot(w, r, names) ==
    {[at |-> n, of |-> n, w |-> w, r |-> r, sub |-> Atom] : n \in names}
Part(w, r, name, class) ==
    {[at |-> name, of |-> name, w |-> w, r |-> r, sub |-> class]}
\* A place that is written from one attribute, or read into one, of another name.
Moved(w, r, place, attribute) ==
    {[at |-> place, of |-> attribute, w |-> w, r |-> r, sub |-> Atom]}

Class(need, may, slots) == [need |-> need, may |-> may, slots |-> slots]
Attributes(C) == C.need \cup C.may

\* The class D of a constructor that calls the one of C.
Extend(C, need, may, slots) ==
    Class(C.need \cup need, C.may \cup may, C.slots \cup slots)

\* The same where what an entity has and how it is moved are two classes of the code.
Has(need, may) == [need |-> need, may |-> may]
Moves(A, slots) == Class(A.need, A.may, slots)
MovesMore(C, A, slots) == Extend(C, A.need, A.may, slots)

-----------------------------------------------------------------------------
(* Writing and reading, over a table T of classes by name.                 *)

IsWritten(s, v) ==
    CASE s.w = "must" -> TRUE
      [] s.w \in {"set", "bad", "some"} -> v # None
      [] s.w = "true" -> v \notin {None, Zero}
      [] s.w \in {"no", "used"} -> FALSE

RECURSIVE Write(_, _, _)
Write(T, c, o) ==
    LET out == {s \in T[c].slots : IsWritten(s, o[s.of])}
        put(s) == IF s.sub = Atom \/ o[s.of] = None THEN o[s.of]
                  ELSE Write(T, s.sub, o[s.of])
        used == {s \in T[c].slots : s.w = "used"}
    IN  IF \/ \E s \in out : \/ s.w = "bad" \/ put(s) \in {None, Raised}
                             \/ s.w = "some" /\ put(s) = Zero
           \/ \E s \in used : o[s.of] = None
        THEN Raised
        ELSE [p \in {s.at : s \in out} |-> put(CHOOSE s \in out : s.at = p)]

RECURSIVE Read(_, _, _)
Read(T, c, wire) ==
    LET in == {s \in T[c].slots : s.r # "no"}
        has(s) == s.at \in DOMAIN wire
        absent(s) == IF s.r # "raw" THEN None
                     ELSE IF s.sub = Atom THEN Zero ELSE Read(T, s.sub, <<>>)
        get(s) == IF ~has(s) THEN absent(s)
                  ELSE IF s.sub = Atom THEN wire[s.at] ELSE Read(T, s.sub, wire[s.at])
    IN  IF \E s \in in : s.r = "gate" /\ ~has(s) THEN None
        ELSE IF \E s \in in : \/ (s.r = "must" /\ ~has(s)) \/ (s.r = "fails" /\ has(s))
                             \/ get(s) = Raised THEN Raised
        ELSE [a \in Attributes(T[c]) |->
                 IF \E s \in in : s.of = a
                 THEN get(CHOOSE s \in in : s.of = a) ELSE None]

-----------------------------------------------------------------------------
(* The objects of a class: the barest one, the fullest one, and the ones   *)
(* that differ from the barest in one attribute, structures to a depth.    *)

SubOf(C, a) ==
    IF \E s \in C.slots : s.of = a /\ s.sub # Atom
    THEN (CHOOSE s \in C.slots : s.of = a /\ s.sub # Atom).sub ELSE Atom

RECURSIVE Bare(_, _)
Bare(T, c) ==
    [a \in Attributes(T[c]) |->
        IF a \in T[c].may THEN None
        ELSE IF SubOf(T[c], a) = Atom THEN Given ELSE Bare(T, SubOf(T[c], a))]

\* All that can be given without making the writing raise.
Full(T, c) ==
    [a \in Attributes(T[c]) |->
        IF \E s \in T[c].slots : s.of = a /\ s.w = "bad" THEN Bare(T, c)[a]
        ELSE IF SubOf(T[c], a) = Atom THEN Given ELSE Bare(T, SubOf(T[c], a))]

RECURSIVE Objects(_, _, _)
Objects(T, c, depth) ==
    LET values(a) ==
            IF SubOf(T[c], a) = Atom THEN {Zero, Given}
            ELSE IF depth = 0 THEN {} ELSE Objects(T, SubOf(T[c], a), depth - 1)
    IN  {Bare(T, c), Full(T, c)} \cup
        UNION {{[Bare(T, c) EXCEPT ![a] = v] : v \in values(a)} : a \in Attributes(T[c])}

\* What is nothing: None and the zero values stand for each other on the wire.
RECURSIVE Blank(_)
Blank(v) == v \in {None, Zero} \/ (v \notin Atoms /\ \A a \in DOMAIN v : Blank(v[a]))

\* Whether the object o of class c is, or has in it, one of a class of D.
RECURSIVE Holds(_, _, _, _)
Holds(T, c, o, D) ==
    \/ c \in D
    \/ \E a \in DOMAIN o : o[a] \notin Atoms /\ Holds(T, SubOf(T[c], a), o[a], D)

\* The attributes, as pairs of a class and a name, that were given in o and that
\* are not the same in x.
RECURSIVE Changed(_, _, _, _)
Changed(T, c, o, x) ==
    LET lost(a) == ~(Blank(o[a]) /\ Blank(x[a]))
        nested(a) == SubOf(T[c], a) # Atom /\ o[a] \notin Atoms /\ x[a] \notin Atoms
    IN  UNION {IF o[a] = x[a] \/ ~lost(a) THEN {}
               ELSE IF nested(a) THEN Changed(T, SubOf(T[c], a), o[a], x[a])
               ELSE {<<c, a>>} : a \in Attributes(T[c])}
=============================================================================
