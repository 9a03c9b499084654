--------------------------- MODULE PackageStream ---------------------------
(***************************************************************************)
(* SendStream() and ReceiveStream() of secure/_stream.py and aio/stream.py *)
(* carry a long source as line-delimited packages, one per block, opened   *)
(* through the replay guard and written at once to a file or a descriptor. *)
(* A call that raises may be made again, from the start of its source or   *)
(* from where the source stands; the output file is opened anew each time. *)
(*                                                                         *)
(* A package, and the block in it, is its number.  Whoever hands on the    *)
(* packages may repeat one, leave one out, swap two, damage one or stop.   *)
(* A block of more than 30 KiB, and the default is 64, makes a package of  *)
(* several chunks, whose envelope uses up the nonce before they are read.  *)
(***************************************************************************)
EXTENDS Integers, Sequences, SequencesExt

CONSTANT LastPackage    \* bound of the model: the packages of a source

ASSUME StreamAssumption == LastPackage \in Nat \ {0}

VARIABLES
    toFile,      \* whether output_file is a path, which is truncated, or a descriptor
    sentPkgs,    \* the packages SendStream() has made
    sourceEnded, \* whether it has come to the end of its source
    inReceive,   \* whether a call of ReceiveStream() is open
    begun,       \* the position at which it began
    position,    \* where the iteration over the packages stands
    openedPkgs,  \* the packages the guard has let through
    output,      \* what has been written
    lost,        \* history: opened, and the write failed
    truncated,   \* history: written, and truncated by a later call
    ruined,      \* history: opened in a copy with a damaged chunk
    disturbed,   \* history: the packages came otherwise than they were sent
    returned     \* the last call returned, having read all of an undisturbed source

streamVars == <<toFile, sentPkgs, sourceEnded, inReceive, begun, position, openedPkgs,
                output, lost, truncated, ruined, disturbed, returned>>

senderVars == <<sentPkgs, sourceEnded>>

Packages == 1..LastPackage

StreamTypeOK ==
    /\ {toFile, sourceEnded, inReceive, disturbed, returned} \subseteq BOOLEAN
    /\ sentPkgs \in 0..LastPackage
    /\ {begun, position} \subseteq 1..(LastPackage + 1)
    /\ openedPkgs \subseteq 1..sentPkgs
    /\ output \in Seq(Packages)
    /\ lost \cup truncated \cup ruined \subseteq openedPkgs

StreamInit ==
    /\ toFile \in BOOLEAN
    /\ sentPkgs = 0
    /\ sourceEnded = FALSE
    /\ inReceive = FALSE
    /\ begun = 1
    /\ position = 1
    /\ openedPkgs = {}
    /\ output = <<>>
    /\ lost = {}
    /\ truncated = {}
    /\ ruined = {}
    /\ disturbed = FALSE
    /\ returned = FALSE

----------------------------------------------------------------------------
(* SendStream() *)

SendPackage ==
    /\ ~sourceEnded
    /\ sentPkgs < LastPackage
    /\ sentPkgs' = sentPkgs + 1
    /\ UNCHANGED <<toFile, sourceEnded, inReceive, begun, position, openedPkgs, output,
                   lost, truncated, ruined, disturbed, returned>>

\* An empty source is one package with an empty block.
EndSource ==
    /\ ~sourceEnded
    /\ sourceEnded' = TRUE
    /\ sentPkgs' = IF sentPkgs = 0 THEN 1 ELSE sentPkgs
    /\ UNCHANGED <<toFile, inReceive, begun, position, openedPkgs, output, lost, truncated,
                   ruined, disturbed, returned>>

----------------------------------------------------------------------------
(* ReceiveStream() *)

BeginReceive(from) ==
    /\ ~inReceive
    /\ inReceive' = TRUE
    /\ begun' = from
    /\ position' = from
    /\ returned' = FALSE
    /\ IF toFile
       THEN output' = <<>> /\ truncated' = truncated \cup Range(output)
       ELSE UNCHANGED <<output, truncated>>
    /\ UNCHANGED <<toFile, senderVars, openedPkgs, lost, ruined, disturbed>>

Raise == inReceive' = FALSE /\ UNCHANGED <<openedPkgs, output>>

Write(i) == output' = Append(output, i) /\ UNCHANGED <<inReceive, lost>>
WriteFails(i) == inReceive' = FALSE /\ lost' = lost \cup {i} /\ UNCHANGED output

\* Bug: the package is not checked with the guard.
BadReceivePackage(i) ==
    /\ inReceive
    /\ i <= sentPkgs
    /\ position' = i + 1
    /\ disturbed' = (disturbed \/ i # position)
    /\ openedPkgs' = openedPkgs \cup {i}
    /\ Write(i)
    /\ UNCHANGED <<toFile, senderVars, begun, truncated, ruined, returned>>

(* The next package: i is the one at "position", unless the packages were  *)
(* disturbed.  ReceiveBinary() refuses one the guard has let through.      *)
ReceivePackage(i) ==
    /\ inReceive
    /\ i <= sentPkgs
    /\ position' = i + 1
    /\ disturbed' = (disturbed \/ i # position)
    /\ IF i \in openedPkgs
       THEN Raise /\ UNCHANGED lost
       ELSE openedPkgs' = openedPkgs \cup {i} /\ (Write(i) \/ WriteFails(i))
    /\ UNCHANGED <<toFile, senderVars, begun, truncated, ruined, returned>>

(* A damaged package: a line cut short or a damaged envelope raises before *)
(* the guard marks anything, and so does a copy of a package it has let    *)
(* through; a damaged chunk raises after open_from() has marked the nonce. *)
DamagedPackage(i) ==
    /\ inReceive
    /\ i <= sentPkgs
    /\ position' = i + 1
    /\ disturbed' = TRUE
    /\ inReceive' = FALSE
    /\ \/ UNCHANGED <<openedPkgs, ruined>>
       \/ /\ i \notin openedPkgs
          /\ openedPkgs' = openedPkgs \cup {i}
          /\ ruined' = ruined \cup {i}
    /\ UNCHANGED <<toFile, senderVars, begun, output, lost, truncated, returned>>

\* Nothing more to iterate over: because that was all, or not all was there yet.
EndReceive ==
    /\ inReceive
    /\ inReceive' = FALSE
    /\ returned' = (begun = 1 /\ ~disturbed /\ sourceEnded /\ position > sentPkgs)
    /\ UNCHANGED <<toFile, senderVars, begun, position, openedPkgs, output, lost, truncated,
                   ruined, disturbed>>

StreamNext ==
    \/ SendPackage
    \/ EndSource
    \/ \E from \in {1, position} : BeginReceive(from)
    \/ \E i \in Packages : ReceivePackage(i) \/ DamagedPackage(i)
    \/ EndReceive

StreamSpec == StreamInit /\ [][StreamNext]_streamVars

----------------------------------------------------------------------------
\* What became of the packages that the guard has used up.
Fates == <<Range(output), lost, truncated, ruined>>

(* Whatever fails and is tried again, each package the guard has used up   *)
(* went one way: it is in the output once, it was truncated by the         *)
(* caller's next attempt, its write raised, or a copy of it with a damaged *)
(* chunk came first; the output is in the order of the source unless the   *)
(* packages came out of order or damaged; and a call that read an          *)
(* undisturbed source from its start to its end has written all of it      *)
(* (ReceiveStream() and the guard of ReceiveBinary()).                     *)
StreamAccounted ==
    /\ UNION Range(Fates) = openedPkgs
    /\ \A a, b \in DOMAIN Fates : a # b => Fates[a] \cap Fates[b] = {}
    /\ \A i, j \in DOMAIN output : i < j =>
           IF disturbed THEN output[i] # output[j] ELSE output[i] < output[j]
    /\ returned => output = [i \in 1..sentPkgs |-> i]
=============================================================================
