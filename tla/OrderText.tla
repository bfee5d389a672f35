------------------------------ MODULE OrderText ------------------------------
(***************************************************************************)
(* The texts of the common messages, and how a direction is taken apart.   *)
(* A text is a sequence of words, cut where the code may tell two texts    *)
(* apart, so that "closetoday" has the prefix "close".                     *)
(***************************************************************************)
EXTENDS Naturals, Sequences, SequencesExt

Open == <<"open">>
Close == <<"close">>
CloseToday == <<"close", "today">>
CloseHistory == <<"close", "history">>
ForceClose == <<"force", "close">>
Buy == <<"buy">>
Sell == <<"sell">>
OrderAction == {Open, Close, CloseToday, CloseHistory, ForceClose, Buy, Sell}

Net == <<"net">>
Long == <<"long">>
Short == <<"short">>

\* What the parts of a direction, and of an id, are joined with.
Bar == "_"

\* The text "%s_%s".
Joined(action, dir) == action \o <<Bar>> \o dir

Refused == [is |-> "refused"]   \* false, an error, or an exception
Crashed == [is |-> "crashed"]   \* the process is gone

\* Where the first of the words, and the last w, of a text is; 0 if it has none.
FirstAt(text, words) == SelectInSeq(text, LAMBDA x : x \in words)
LastAt(text, w) == SelectLastInSeq(text, LAMBDA x : x = w)

\* The first of the texts that the strncmp of its length finds at the front.
FrontOf(texts, text) == SelectInSeq(texts, LAMBDA t : IsPrefix(t, text))

\* Mutant of SplitActions: "close" is tried before the texts that begin with it.
SplitActionsShortFirst == <<Open, Close, CloseToday, CloseHistory>>

\* The order in which SplitOrderDir tries the actions.
SplitActions == <<Open, CloseToday, CloseHistory, Close>>

\* The outcomes of SplitOrderDir. It reads on past the end of an empty text, and
\* falls off its end, without a result, for a text with no "_" that neither "buy"
\* nor "sell" begins; the caller's pointers are null then.
SplitOrderDir(text) ==
    LET at == FirstAt(text, {Bar})
        single == FrontOf(<<Buy, Sell>>, text)
        action == FrontOf(SplitActions, text)
        dir == FrontOf(<<Long, Short>>, SubSeq(text, at + 1, Len(text))) IN
    CASE at = 1 -> {Refused}
      [] at = 0 /\ single = 0 -> {Refused, Crashed}
      [] at = 0 /\ single # 0 -> {[is |-> "split", action |-> <<Buy, Sell>>[single], dir |-> Net]}
      [] at > 1 /\ (action = 0 \/ dir = 0) -> {Refused}
      [] at > 1 /\ action # 0 /\ dir # 0 ->
            {[is |-> "split", action |-> SplitActions[action], dir |-> <<Long, Short>>[dir]]}

\* The directions of the API document. (SplitOrderDir takes any text that begins
\* like one of them for it.)
Directions == {Joined(a, d) : a \in OrderAction \ {Buy, Sell}, d \in {Long, Short}} \cup {Buy, Sell}

\* The two parts of a text that the last word w divides, and where it is.
CutAtLast(text, w) ==
    LET at == LastAt(text, w) IN
    [at |-> at, front |-> SubSeq(text, 1, at - 1), rest |-> SubSeq(text, at + 1, Len(text))]

\* Extend*Id: an id is told with the investor and the trading day; an order that
\* has no id yet has none here either.
ExtendId(investor, day, id) == IF id = <<>> THEN <<>> ELSE investor \o <<Bar>> \o day \o <<Bar>> \o id

\* Mutant of GetIdFromExtend: what follows the first "_".
GetIdFromExtendFirst(text) ==
    SubSeq(text, FirstAt(text, {Bar}) + 1, Len(text))

\* Get*IdFromExtend: what follows the last "_".
GetIdFromExtend(text) ==
    SubSeq(text, LastAt(text, Bar) + 1, Len(text))
=============================================================================
