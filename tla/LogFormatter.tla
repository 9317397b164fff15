---------------------------- MODULE LogFormatter ----------------------------
(***************************************************************************)
(* LogFormatter in src/log.cc: how a pattern is taken apart into the items *)
(* that print a log line.  A pattern is a sequence of characters, of which *)
(* the code tells apart the percent sign, the two braces, letters and the  *)
(* rest.                                                                   *)
(***************************************************************************)
EXTENDS Integers, Sequences, SequencesExt

CONSTANTS
    Char,   \* the characters of a pattern
    Letter, \* those isalpha() accepts
    Known   \* the names in s_format_items

ASSUME FormatterAssumption ==
    /\ Letter \subseteq Char /\ Letter \cap {"%", "{", "}"} = {}
    /\ Known \subseteq Seq(Letter) \ {<<>>}

-----------------------------------------------------------------------------
(* LogFormatter::init.                                                     *)

Text(str) == [kind |-> "text", name |-> str, fmt |-> <<>>]
Directive(str, fmt) == [kind |-> "directive", name |-> str, fmt |-> fmt]
PatternError == [kind |-> "unclosed", name |-> <<>>, fmt |-> <<>>]

\* The first position from n on where p has a character outside S.
EndOfRun(p, n, S) ==
    CHOOSE k \in n..(Len(p) + 1) :
        /\ \A j \in n..(k - 1) : p[j] \in S
        /\ k <= Len(p) => p[k] \notin S

\* The first closing brace from n on, or the position behind the pattern.
Closing(p, n) == EndOfRun(p, n, Char \ {"}"})

\* Faulty variant: nstr is not looked at first.
FlushAlways(s) == Append(s.vec, Text(s.nstr))

\* nstr goes into vec if there is any.
Flush(s) == IF s.nstr = <<>> THEN s.vec ELSE Append(s.vec, Text(s.nstr))

\* One turn of the outer loop at position s.i.
Scan(p, s) ==
    LET n      == EndOfRun(p, s.i + 1, Letter \cup {"}"})
        braced == n <= Len(p) /\ p[n] = "{"
        k      == Closing(p, n + 1)
    IN  CASE p[s.i] # "%" \/ (s.i < Len(p) /\ p[s.i + 1] = "%") ->
                [s EXCEPT !.i = @ + 1, !.nstr = Append(@, p[s.i])]
          [] OTHER ->
                IF braced /\ k > Len(p)
                THEN [s EXCEPT !.i = @ + 1, !.vec = Append(@, PatternError)]
                ELSE [i    |-> IF braced THEN k + 1 ELSE n,
                      nstr |-> <<>>,
                      vec  |-> Append(Flush(s),
                                      Directive(SubSeq(p, s.i + 1, n - 1),
                                                IF braced THEN SubSeq(p, n + 1, k - 1) ELSE <<>>))]

\* The outer loop, turn by turn; each takes at least one character.
Scans(p) ==
    LET scan[k \in 0..Len(p)] ==
            IF k = 0 THEN [i |-> 1, nstr |-> <<>>, vec |-> <<>>]
            ELSE IF scan[k - 1].i > Len(p) THEN scan[k - 1] ELSE Scan(p, scan[k - 1])
    IN  scan

Items(p) == Flush(Scans(p)[Len(p)])

\* m_error: an item prints an error text instead of part of the event.
IsError(p) ==
    \E it \in ToSet(Items(p)) :
        it.kind = "unclosed" \/ (it.kind = "directive" /\ it.name \notin Known)

-----------------------------------------------------------------------------
(* The grammar of the comment on init, "%xxx %xxx{xxx} %%", read           *)
(* backwards: which ways of cutting a pattern into pieces have a meaning.  *)
(* A piece is a pair of positions.                                         *)

\* Plain text.
IsText(p, c) == \A k \in c[1]..c[2] : p[k] # "%"

\* %%, which stands for one percent sign.
IsPercent(p, c) == c[2] = c[1] + 1 /\ p[c[1]] = "%" /\ p[c[2]] = "%"

IsPlain(p, c) ==
    /\ p[c[1]] = "%" /\ c[2] > c[1]
    /\ \A k \in (c[1] + 1)..c[2] : p[k] \in Letter

\* %name{format}, with the opening brace at b.
IsBraced(p, c, b) ==
    /\ IsPlain(p, <<c[1], b - 1>>)
    /\ p[b] = "{" /\ p[c[2]] = "}"
    /\ \A k \in (b + 1)..(c[2] - 1) : p[k] # "}"

IsPiece(p, c) ==
    \/ IsText(p, c) \/ IsPercent(p, c) \/ IsPlain(p, c)
    \/ \E b \in (c[1] + 2)..(c[2] - 1) : IsBraced(p, c, b)

Meaning(p, c) ==
    IF IsText(p, c) THEN Text(SubSeq(p, c[1], c[2]))
    ELSE IF IsPercent(p, c) THEN Text(<<"%">>)
    ELSE IF IsPlain(p, c) THEN Directive(SubSeq(p, c[1] + 1, c[2]), <<>>)
    ELSE LET b == CHOOSE b \in c[1]..c[2] : IsBraced(p, c, b)
         IN  Directive(SubSeq(p, c[1] + 1, b - 1), SubSeq(p, b + 1, c[2] - 1))

\* Texts are as long as they can be, and what follows a name ends it.
Fits(p, c, d) ==
    /\ ~(IsText(p, c) /\ IsText(p, d))
    /\ IsPlain(p, c) => p[d[1]] \notin Letter \cup {"{", "}"}

\* The pieces of p if it is cut behind the positions in ends.
Pieces(ends) ==
    [j \in DOMAIN ends |-> <<IF j = 1 THEN 1 ELSE ends[j - 1] + 1, ends[j]>>]

\* The ways to cut p into n pieces that are not empty.
Cuts(p, n) ==
    {ends \in [1..n -> 1..Len(p)] :
        ends[n] = Len(p) /\ \A j \in 2..n : ends[j - 1] < ends[j]}

IsReading(p, ps) ==
    /\ \A j \in 1..Len(ps) : IsPiece(p, ps[j])
    /\ \A j \in 1..(Len(ps) - 1) : Fits(p, ps[j], ps[j + 1])

\* What p means by the grammar: the items of its readings.
Readings(p) ==
    IF p = <<>> THEN {<<>>}
    ELSE UNION {{[j \in 1..n |-> Meaning(p, Pieces(ends)[j])] :
                    ends \in {c \in Cuts(p, n) : IsReading(p, Pieces(c))}} : n \in 1..Len(p)}

\* Two percent signs in a row.
Escaped(p) == \E k \in 1..(Len(p) - 1) : p[k] = "%" /\ p[k + 1] = "%"

\* init finds the reading of p, and reports an error exactly if there is no
\* reading, or one with a name nobody knows.
IsReadRight(p) ==
    /\ Readings(p) \subseteq {Items(p)}
    /\ IsError(p) <=> \A r \in Readings(p) : \E it \in ToSet(r) :
                          it.kind = "directive" /\ it.name \notin Known
=============================================================================
