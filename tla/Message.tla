------------------------------ MODULE Message ------------------------------
(***************************************************************************)
(* proceedMsg: the answer to a text.  std::sregex_iterator looks for the   *)
(* next match of (\-|\+)?[0123456789]+ behind the last one, std::stoi      *)
(* reads it, and the sum is kept in an int.                                *)
(*                                                                         *)
(* One step is one round of the for loop.  An int has 2 * Half values; the *)
(* addition that overflows, which C++ leaves undefined, wraps around as it *)
(* does in the build.                                                      *)
(***************************************************************************)
EXTENDS Integers, SequencesExt

CONSTANTS
    Text,    \* the texts that arrive, sequences of characters
    Half     \* an int reaches from -Half to Half - 1

VARIABLES
    text,     \* msgReceived
    at,       \* where the iterator goes on searching
    isFound,
    value,
    answer    \* "none" while the loop runs, then what proceedMsg does

vars == <<text, at, isFound, value, answer>>

Sign  == {"-", "+"}
Digit == [c \in {"0", "1", "2", "3", "4", "5", "6", "7", "8", "9"} |->
            CASE c = "0" -> 0 [] c = "1" -> 1 [] c = "2" -> 2 [] c = "3" -> 3 [] c = "4" -> 4
              [] c = "5" -> 5 [] c = "6" -> 6 [] c = "7" -> 7 [] c = "8" -> 8 [] c = "9" -> 9]
\* "x" is any other.
Char  == Sign \cup DOMAIN Digit \cup {"x"}

ASSUME MessageAssumption == Half \in Nat \ {0} /\ \A t \in Text : t \in Seq(Char)

MaxInt == Half - 1
MinInt == -Half
ToInt(n) == ((n + Half) % (2 * Half)) - Half

-----------------------------------------------------------------------------
(* The search *)

IsDigit(s, i) == i \in DOMAIN s /\ s[i] \in DOMAIN Digit
IsSign(s, i)  == i \in DOMAIN s /\ s[i] \in Sign

\* A match can begin at i.
Begins(s, i) == IsDigit(s, i) \/ (IsSign(s, i) /\ IsDigit(s, i + 1))

\* The first match at i or behind it; past the end if there is none.
Search(s, i) == Min({k \in i .. Len(s) + 1 : k > Len(s) \/ Begins(s, k)})

\* Mutant: a match has one digit.
RunOfOne(s, i) == i + 1

\* The end of the digits that begin at i: [...]+ is greedy.
Run(s, i) == Min({k \in i .. Len(s) + 1 : ~IsDigit(s, k)})

\* What the digits from i on are worth, read from the left.
Value(s, i) ==
    LET f[k \in Nat] ==
          IF k < i \/ ~IsDigit(s, k) THEN 0 ELSE 10 * f[k - 1] + Digit[s[k]]
    IN f

\* Mutant: the sign is not part of what stoi reads.
StoiUnsigned(s, i, j) == Value(s, i)[j - 1]

\* What std::stoi reads in s between i and j.
Stoi(s, i, j) == IF s[i] = "-" THEN -Value(s, i)[j - 1] ELSE Value(s, i)[j - 1]

-----------------------------------------------------------------------------
Init ==
    /\ text \in Text
    /\ at = 1
    /\ isFound = FALSE
    /\ value = 0
    /\ answer = "none"

Begin == Search(text, at)
End   == Run(text, IF IsSign(text, Begin) THEN Begin + 1 ELSE Begin)
More  == answer = "none" /\ Begin <= Len(text)
Number == Stoi(text, Begin, End)

\* Mutant: the sum is kept in something wider than an int.
AddWide ==
    /\ More
    /\ Number \in MinInt .. MaxInt
    /\ isFound' = TRUE
    /\ value' = value + Number
    /\ at' = End
    /\ UNCHANGED <<text, answer>>

Add ==
    /\ More
    /\ Number \in MinInt .. MaxInt
    /\ isFound' = TRUE
    /\ value' = ToInt(value + Number)
    /\ at' = End
    /\ UNCHANGED <<text, answer>>

\* Mutant: the sum is what must be an int.
ThrowForSum ==
    /\ More
    /\ value + Number \notin MinInt .. MaxInt
    /\ isFound' = TRUE
    /\ answer' = "throw"
    /\ UNCHANGED <<text, at, value>>

\* std::out_of_range, which nobody catches.
Throw ==
    /\ More
    /\ Number \notin MinInt .. MaxInt
    /\ isFound' = TRUE
    /\ answer' = "throw"
    /\ UNCHANGED <<text, at, value>>

\* Mutant: a sum of zero is taken for no number.
FinishByValue ==
    /\ answer = "none" /\ ~More
    /\ answer' = (IF value # 0 THEN "sum" ELSE "echo")
    /\ UNCHANGED <<text, at, isFound, value>>

Finish ==
    /\ answer = "none" /\ ~More
    /\ answer' = (IF isFound THEN "sum" ELSE "echo")
    /\ UNCHANGED <<text, at, isFound, value>>

Next == Add \/ Throw \/ Finish

Spec == Init /\ [][Next]_vars

-----------------------------------------------------------------------------
(* What the numbers of a text are, without a search *)

Ten[n \in Nat] == IF n = 0 THEN 1 ELSE 10 * Ten[n - 1]

\* F[1] + ... + F[n], as a function of n.
Total(F) == LET f[n \in Nat] == IF n = 0 THEN 0 ELSE f[n - 1] + F[n] IN f

\* The maximal runs of digits.
Runs(s) ==
    {r \in (DOMAIN s) \X (DOMAIN s) :
        /\ r[1] <= r[2]
        /\ \A k \in r[1] .. r[2] : IsDigit(s, k)
        /\ ~IsDigit(s, r[1] - 1) /\ ~IsDigit(s, r[2] + 1)}

\* Places count from the right; a minus just before a run makes it negative.
Places(s, r) ==
    [k \in Nat |-> IF k \in r[1] .. r[2] THEN Digit[s[k]] * Ten[r[2] - k] ELSE 0]
Meaning(s, r) ==
    IF r[1] - 1 \in DOMAIN s /\ s[r[1] - 1] = "-"
      THEN -Total(Places(s, r))[r[2]]
      ELSE Total(Places(s, r))[r[2]]

\* The runs count where they end.
Numbers(s) ==
    [k \in Nat |-> IF \E r \in Runs(s) : r[2] = k
                     THEN Meaning(s, CHOOSE r \in Runs(s) : r[2] = k) ELSE 0]
SumTo(s, n) == Total(Numbers(s))[n]
Sum(s) == SumTo(s, Len(s))

-----------------------------------------------------------------------------
(* Properties *)

TypeOK ==
    /\ text \in Text
    /\ at \in 1 .. Len(text) + 1
    /\ isFound \in BOOLEAN
    /\ value \in MinInt .. MaxInt
    /\ answer \in {"none", "sum", "echo", "throw"}

IsInt(s, r) == Meaning(s, r) \in MinInt .. MaxInt

\* The loop has summed the numbers before at, all of them and nothing else, and
\* at cuts none in two.  (Inductive: the properties below follow.)
LoopInv ==
    /\ TypeOK
    /\ at # 1 => ~IsDigit(text, at)
    /\ value = ToInt(SumTo(text, at - 1))
    /\ \A r \in Runs(text) : r[2] < at => IsInt(text, r)
    /\ IF isFound THEN Runs(text) # {} ELSE at = 1
    /\ answer \in {"sum", "echo"} => Begin > Len(text) /\ (answer = "sum" <=> isFound)
    /\ answer = "throw" => \E r \in Runs(text) : ~IsInt(text, r)

\* No addition from left to right leaves int.
SumsAreInts(s) == \A n \in 0 .. Len(s) : SumTo(s, n) \in MinInt .. MaxInt

\* A text with numbers is answered with their sum, provided that the sums on the
\* way to it are ints: no number is skipped, read twice, cut or joined with its
\* neighbour, and a sign that belongs to no number changes nothing.
SumOfNumbers ==
    answer = "sum" /\ SumsAreInts(text) => Runs(text) # {} /\ value = Sum(text)

\* "If message contains numbers then server returns sum of that numbers"
\* (README.MD:24), with no proviso.  Violated: the addition at message.cpp:25
\* overflows.
AnswerIsTrueSum ==
    answer = "sum" => value = Sum(text)

\* The text itself comes back exactly if there is no number in it.
EchoWithoutNumbers ==
    answer # "none" => (answer = "echo" <=> Runs(text) = {})

\* A text ends the process only with a number that by itself is no int: not with
\* a sum that is none, with many numbers, with signs or with leading zeros.  (That
\* such a number does end it is what NeverAborts of Server is about.)
ThrowsOnlyForNoInt ==
    answer = "throw" => \E r \in Runs(text) : ~IsInt(text, r)
=============================================================================
