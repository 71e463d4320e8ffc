------------------------------- MODULE Spool -------------------------------
(***************************************************************************)
(* Part of internal/spool/spool.go, and the source it reads behind the     *)
(* BodyLimit middleware: how much of a source of a given size ends up in   *)
(* the spool, or why none does.                                            *)
(***************************************************************************)
EXTENDS Naturals, FiniteSetsExt

\* What Part returns: a Reader over memory or a temporary file with its size,
\* ErrTooLarge, or the source's own error.
InMemory(n) == [kind |-> "memory", size |-> n]
OnDisk(n)   == [kind |-> "file", size |-> n]
TooLarge    == [kind |-> "toolarge", size |-> 0]
Broken      == [kind |-> "error", size |-> 0]

\* What a source of n bytes yields under http.MaxBytesReader with this limit
\* (0: none), and whether it then fails instead of ending.
Yields(n, limit) == IF limit > 0 THEN Min({n, limit}) ELSE n
Fails(n, limit)  == limit > 0 /\ n > limit

\* maxBytes of 0 is no cap.
\* Mutant of Exceeds: a part of exactly maxBytes is refused.
ExceedsAt(total, maxBytes) == maxBytes > 0 /\ total >= maxBytes

Exceeds(total, maxBytes) == maxBytes > 0 /\ total > maxBytes

\* What may still be copied to the file: one byte past maxBytes, so that an
\* overflow shows.
Room(buffered, maxBytes) ==
    IF maxBytes + 1 > buffered THEN maxBytes + 1 - buffered ELSE 0

\* Up to threshold + 1 bytes go to a buffer; if they fill it, the buffer and
\* the rest go to a file.
Part(n, limit, threshold, maxBytes) ==
    LET avail    == Yields(n, limit)
        buffered == Min({avail, threshold + 1})
        rest     == avail - buffered
        cut      == maxBytes > 0 /\ Room(buffered, maxBytes) <= rest
        total    == IF cut THEN buffered + Room(buffered, maxBytes) ELSE avail
    IN  IF Fails(n, limit) /\ (buffered <= threshold \/ ~cut) THEN Broken
        ELSE IF Exceeds(total, maxBytes) THEN TooLarge
        ELSE IF buffered <= threshold THEN InMemory(total) ELSE OnDisk(total)

=============================================================================
