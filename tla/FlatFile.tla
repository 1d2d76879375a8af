------------------------------ MODULE FlatFile ------------------------------
(***************************************************************************)
(* What a client expects of files: each one is a sequence of words that a  *)
(* write overlays, a truncation cuts or extends, and nobody else touches.  *)
(* How a truncation fills what it adds is left open, and one that removes  *)
(* a block or more may remove too much, by less than a block.  The server  *)
(* may stop for good at any request.                                       *)
(***************************************************************************)
EXTENDS Integers, Sequences

CONSTANTS
    File,
    None,     \* the content of a file that does not exist
    Zero,     \* what fills the gap before a write past the end
    Fill,     \* what may fill a file that a truncation extends: a set
    Buffer,   \* what clients write
    Block,    \* the words of a block
    MaxSize   \* bound: size of a file

VARIABLES
    content,  \* the words of each file, or None
    up        \* FALSE once the server has stopped; nothing exists then

Larger(a, b) == IF a > b THEN a ELSE b

Overlay(words, offset, buffer) ==
    [i \in 1 .. Larger(Len(words), offset + Len(buffer)) |->
        IF i - offset \in 1 .. Len(buffer) THEN buffer[i - offset]
        ELSE IF i <= Len(words) THEN words[i] ELSE Zero]

Resize(words, length, fill) ==
    [i \in 1 .. length |-> IF i <= Len(words) THEN words[i] ELSE fill]

\* The sizes that a truncation of so many words to a length may end with.
Reached(size, length) ==
    IF size - length < Block THEN {length}
    ELSE {n \in 0 .. length : length - n < Block}

\* What a truncation may leave of words.
Truncations(words, length) ==
    {Resize(words, n, fill) : n \in Reached(Len(words), length), fill \in Fill}

Init == content = [f \in File |-> None] /\ up = TRUE

Only(f) == up' = up /\ content' = [content EXCEPT ![f] = content'[f]]

Create(f) == content[f] = None /\ content'[f] = <<>>

Delete(f) == content[f] # None /\ content'[f] = None

Write(f, offset, buffer) ==
    /\ content[f] # None
    /\ offset + Len(buffer) <= MaxSize
    /\ content'[f] = Overlay(content[f], offset, buffer)

Truncate(f, length) ==
    /\ content[f] # None
    /\ content'[f] \in Truncations(content[f], length)

Stop == up' = FALSE /\ content' = [f \in File |-> None]

Next ==
    /\ up
    /\ \/ Stop
       \/ \E f \in File :
             /\ Only(f)
             /\ \/ Create(f)
                \/ Delete(f)
                \/ \E offset \in 0 .. MaxSize, buffer \in Buffer : Write(f, offset, buffer)
                \/ \E length \in 0 .. MaxSize : Truncate(f, length)

Spec == Init /\ [][Next]_<<content, up>>
=============================================================================
