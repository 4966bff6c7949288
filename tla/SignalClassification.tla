------------------------- MODULE SignalClassification -------------------------
(***************************************************************************)
(* What Houston promises about the patterns of signals, without claims,    *)
(* runs, messages, locks or attempts.  A signal that says something nobody *)
(* has answered for is asked about, and answered once, for what was asked; *)
(* an owner may answer at any time, and what an owner answered stays until *)
(* the signal says something else.  A signal is always on a pattern in use:*)
(* the merge of a pattern takes all its signals along.                     *)
(***************************************************************************)
EXTENDS Integers

CONSTANTS Signals, LastContent, Patterns, FirstPatterns, NoPattern

VARIABLES
    content,     \* what each signal says
    row,         \* what is known of its pattern, from whom, and what is asked
    life         \* of each pattern: absent, active, or merged for good

vars == <<content, row, life>>

Contents  == 0..LastContent
NoContent == -1

Init ==
    /\ content = [s \in Signals |-> 0]
    /\ row = [s \in Signals |-> [phase |-> "new", on |-> NoPattern, by |-> "classifier",
                                 about |-> NoContent, asked |-> NoContent]]
    /\ life = [p \in Patterns |-> IF p \in FirstPatterns THEN "active" ELSE "absent"]

Edit(s) ==
    /\ \E c \in Contents : c > content[s] /\ content' = [content EXCEPT ![s] = c]
    /\ UNCHANGED <<row, life>>

(* What was known stays known while something else is asked.               *)
Still(r, phase, c) ==
    [phase |-> phase, on |-> r.on, by |-> r.by, about |-> r.about, asked |-> c]

Ask(s) ==
    /\ row[s].about < content[s]
    /\ row' = [row EXCEPT ![s] = Still(row[s], "asked", content[s])]
    /\ UNCHANGED <<content, life>>

(* An answer fails, or none is asked for: an author has not consented.     *)
Fail(s) ==
    /\ row[s].phase # "answered"
    /\ \E c \in {row[s].asked, content[s]} :
        row' = [row EXCEPT ![s] = Still(row[s], "failed", c)]
    /\ UNCHANGED <<content, life>>

Answered(p, source, c) ==
    [phase |-> "answered", on |-> p, by |-> source, about |-> c, asked |-> NoContent]

(* A pattern in use, or one that is made for it.                           *)
Takes(p) ==
    \/ life[p] = "active" /\ UNCHANGED life
    \/ life[p] = "absent" /\ life' = [life EXCEPT ![p] = "active"]

Answer(s) ==
    /\ row[s].phase = "asked"
    /\ \E p \in Patterns :
        /\ Takes(p)
        /\ row' = [row EXCEPT ![s] = Answered(p, "classifier", row[s].asked)]
    /\ UNCHANGED content

On(p) == {s \in Signals : row[s].on = p}

Corrected(S, p) ==
    row' = [s \in Signals |->
        IF s \in S THEN Answered(p, "owner_correction", content[s]) ELSE row[s]]

Move(source, target) ==
    /\ source # target
    /\ life[source] = "active"
    /\ Takes(target)
    /\ \E S \in SUBSET On(source) : Corrected(S, target)
    /\ UNCHANGED content

Merge(source, target) ==
    /\ source # target
    /\ life[source] = "active" /\ life[target] = "active"
    /\ life' = [life EXCEPT ![source] = "merged"]
    /\ Corrected(On(source), target)
    /\ UNCHANGED content

Next ==
    \/ \E s \in Signals : Edit(s) \/ Ask(s) \/ Fail(s) \/ Answer(s)
    \/ \E source, target \in Patterns : Move(source, target) \/ Merge(source, target)

Spec == Init /\ [][Next]_vars
=============================================================================
