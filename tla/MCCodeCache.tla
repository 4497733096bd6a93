---------------------------- MODULE MCCodeCache ----------------------------
(* Two frames, the second after the first, and one pair of pages on each    *)
(* side of 0x40000000.  The code w2 runs off the end of its page.           *)
EXTENDS CodeCache

CONSTANTS f1, f2, w1, w2, a, b

MCFrames == {f1, f2}
MCWords == {w1, w2}
MCFollowing == [f \in MCFrames |-> IF f = f1 THEN f2 ELSE None]
MCThrough == {w2}
MCLow == {a}
MCHigh == {b}
To(f, dirty) == [pfn |-> f, v |-> TRUE, d |-> dirty]
Off == [pfn |-> f1, v |-> FALSE, d |-> TRUE]
Entry(pair, even, odd) == [vpn2 |-> pair, even |-> even, odd |-> odd]
MCNewEntries == {Entry(a, To(f1, TRUE), Off), Entry(a, To(f2, FALSE), To(Outside, TRUE)),
                 Entry(b, To(f2, TRUE), Off)}
MCJumps == {<<a, "even">>, kseg0(f1)}
=============================================================================
