----------------------------- MODULE FlagEditor -----------------------------
(***************************************************************************)
(* flagd-ui (src/src/flagd-ui/src): pages that read the file of flags,     *)
(* change it and write it back as a whole, through two routes of one       *)
(* server.  A basic page changes single flags of what it has read; an      *)
(* advanced page writes what its operator types, if that is a valid file.  *)
(*                                                                         *)
(* A read is one step of the server (readFileSync), a write is two         *)
(* (fs.writeFile empties the file and then writes from its beginning), and *)
(* requests of all pages interleave.  While a page saves, its spinner      *)
(* covers it.  One read of a page is followed at a time (bound): of two    *)
(* that are out, either one may be the last to arrive.                     *)
(***************************************************************************)
EXTENDS Naturals, FiniteSets

CONSTANTS BasicPages, AdvancedPages, Flags,
          Null,     \* JSON null: what is not loaded, and what is saved of it
          Damaged,  \* not JSON: an empty file, or one with a rest behind it
          Error,    \* the body of a failed read
          Unusable, \* a page that has crashed or waits for ever
          NoRead, Asked, \* a read that is not out, or not served yet
          Typed,    \* bound of the model: what the operator of an advanced page types
          MaxWrites \* bound of the model

Pages == BasicPages \cup AdvancedPages

Variants == {"on", "off"}

Config == [Flags -> Variants]

\* How long the content is in the file, counted from the shortest.
Size(content) ==
    IF content = Null THEN 0
    ELSE 1 + Cardinality({f \in Flags : content[f] = "off"})

VARIABLES
    file,   \* what the file holds: [content, size]
    data,   \* [Pages -> ...]: flagData
    reads,  \* [Pages -> ...]: the read that is out, or its answer
    write,  \* [Pages -> ...]: the write a page has posted
    writes, \* how many writes the file has seen
    \* history, read by the properties only
    last,   \* the last content that was written
    edited, \* [Pages -> SUBSET Flags]: flags chosen since the page was loaded
    seen,   \* [Pages -> Nat]: the write whose content the page has loaded
    broken  \* what has gone wrong that can damage the file

pageVars == <<data, reads, edited, seen>>

vars == <<file, pageVars, write, writes, last, broken>>

NoWrite == [phase |-> "none"]

Init ==
    /\ \E flags \in Config : /\ file = [content |-> flags, size |-> Size(flags)]
                             /\ last = flags
    /\ data = [p \in Pages |-> Null]
    /\ reads = [p \in Pages |-> Asked]
    /\ write = [p \in Pages |-> NoWrite]
    /\ writes = 0
    /\ edited = [p \in Pages |-> {}]
    /\ seen = [p \in Pages |-> 0]
    /\ broken = {}

-----------------------------------------------------------------------------
(***************************************************************************)
(* GET read-file, and what a page makes of the answer: a basic page that   *)
(* gets the body of an error crashes on its missing flags.                 *)
(***************************************************************************)
Answer == [body |-> IF file.content = Damaged THEN Error ELSE file.content,
           version |-> writes]

ReadFile(p) ==
    /\ reads[p] = Asked
    /\ reads' = [reads EXCEPT ![p] = Answer]
    /\ UNCHANGED <<file, data, edited, seen, write, writes, last, broken>>

SetFlagData(p) ==
    /\ reads[p] \notin {NoRead, Asked}
    /\ reads' = [reads EXCEPT ![p] = NoRead]
    /\ data' = [data EXCEPT ![p] =
                   IF p \in BasicPages /\ reads[p].body = Error
                   THEN Unusable ELSE reads[p].body]
    /\ edited' = [edited EXCEPT ![p] = {}]
    /\ seen' = [seen EXCEPT ![p] = reads[p].version]
    /\ UNCHANGED <<file, write, writes, last, broken>>

\* The read fails: an alert, and the page stays as it is.
ReadLost(p) ==
    /\ reads[p] = Asked
    /\ reads' = [reads EXCEPT ![p] = NoRead]
    /\ UNCHANGED <<file, data, edited, seen, write, writes, last, broken>>

-----------------------------------------------------------------------------
\* updateFlagData: another variant of a flag is chosen on a basic page; of each
\* flag once between two loads (bound).
Edit(p) ==
    /\ p \in BasicPages
    /\ write[p] = NoWrite
    /\ data[p] \in Config
    /\ \E f \in Flags \ edited[p] : \E variant \in Variants \ {data[p][f]} :
           /\ data' = [data EXCEPT ![p][f] = variant]
           /\ edited' = [edited EXCEPT ![p] = @ \cup {f}]
    /\ UNCHANGED <<file, reads, seen, write, writes, last, broken>>

Post(p, content, chosen) ==
    /\ write[p] = NoWrite
    /\ writes + Cardinality({q \in Pages : write[q] # NoWrite}) < MaxWrites
    /\ write' = [write EXCEPT ![p] = [phase |-> "posted", content |-> content,
                                      chosen |-> chosen, base |-> seen[p]]]
    /\ broken' = IF content = Null THEN broken \cup {"saved unloaded"} ELSE broken
    /\ UNCHANGED <<file, pageVars, writes, last>>

\* save is there before there is anything to save.
Save(p) ==
    /\ p \in BasicPages
    /\ data[p] # Unusable
    /\ Post(p, data[p], edited[p])

\* The advanced page shows its editor for anything but null.
SaveUpdate(p) ==
    /\ p \in AdvancedPages
    /\ data[p] \notin {Null, Unusable}
    /\ \E content \in Typed : Post(p, content, Flags)

-----------------------------------------------------------------------------
(***************************************************************************)
(* POST write-to-file.                                                     *)
(***************************************************************************)

\* Seeded bug: the file is opened without being emptied.
OpenFileAsItIs(p) ==
    /\ write[p].phase = "posted"
    /\ write' = [write EXCEPT ![p].phase = "open"]
    /\ broken' = IF \E q \in Pages : write[q].phase = "open"
                 THEN broken \cup {"overlap"} ELSE broken
    /\ UNCHANGED <<file, pageVars, writes, last>>

OpenFile(p) ==
    /\ write[p].phase = "posted"
    /\ write' = [write EXCEPT ![p].phase = "open"]
    /\ file' = [content |-> Damaged, size |-> 0]
    /\ broken' = IF \E q \in Pages : write[q].phase = "open"
                 THEN broken \cup {"overlap"} ELSE broken
    /\ UNCHANGED <<pageVars, writes, last>>

\* After a write, whatever its answer, the page reads the file again.
Reloading(p) ==
    \/ reads' = [reads EXCEPT ![p] = Asked]
    \/ reads[p] # NoRead /\ UNCHANGED reads

\* Without an answer the spinner of a basic page stays for ever.
Unanswered(pages) ==
    [p \in Pages |-> IF p \in pages \cap BasicPages THEN Unusable ELSE data[p]]

\* What an earlier write has left behind the end of this one stays there.
WriteFile(p) ==
    LET content == write[p].content
    IN  /\ write[p].phase = "open"
        /\ write' = [write EXCEPT ![p] = NoWrite]
        /\ file' = IF Size(content) >= file.size
                   THEN [content |-> content, size |-> Size(content)]
                   ELSE [file EXCEPT !.content = Damaged]
        /\ writes' = writes + 1
        /\ last' = content
        /\ broken' = IF /\ content \in Config /\ last \in Config
                        /\ \E f \in Flags \ write[p].chosen : content[f] # last[f]
                        /\ write[p].base < writes
                     THEN broken \cup {"stale copy"}
                     ELSE IF /\ content \in Config /\ last \in Config
                             /\ \E f \in Flags \ write[p].chosen : content[f] # last[f]
                          THEN broken \cup {"unasked change"}
                          ELSE broken
        /\ \/ Reloading(p) /\ UNCHANGED data
           \/ data' = Unanswered({p}) /\ UNCHANGED reads
        /\ UNCHANGED <<edited, seen>>

\* The file cannot be opened; the page does not look at the status.
WriteRefused(p) ==
    /\ write[p].phase = "posted"
    /\ write' = [write EXCEPT ![p] = NoWrite]
    /\ Reloading(p)
    /\ UNCHANGED <<file, data, edited, seen, writes, last, broken>>

ServerDies ==
    /\ \E p \in Pages : write[p] # NoWrite
    /\ broken' = IF \E p \in Pages : write[p].phase = "open"
                 THEN broken \cup {"died"} ELSE broken
    /\ data' = Unanswered({p \in Pages : write[p] # NoWrite})
    /\ write' = [p \in Pages |-> NoWrite]
    /\ reads' = [p \in Pages |-> NoRead]
    /\ UNCHANGED <<file, edited, seen, writes, last>>

\* The operator loads the page again.
LoadPage(p) ==
    /\ write[p] = NoWrite
    /\ data[p] = Unusable
    /\ data' = [data EXCEPT ![p] = Null]
    /\ reads' = [reads EXCEPT ![p] = Asked]
    /\ edited' = [edited EXCEPT ![p] = {}]
    /\ UNCHANGED <<file, seen, write, writes, last, broken>>

Next ==
    \/ \E p \in Pages :
           \/ ReadFile(p) \/ SetFlagData(p) \/ ReadLost(p)
           \/ Edit(p) \/ Save(p) \/ SaveUpdate(p)
           \/ OpenFile(p) \/ WriteFile(p) \/ WriteRefused(p) \/ LoadPage(p)
    \/ ServerDies

Spec == Init /\ [][Next]_vars

-----------------------------------------------------------------------------
(***************************************************************************)
(* A file that nobody is writing holds all the flags, unless two writes    *)
(* overlapped, the server died in one, or a page saved before it had read  *)
(* the file; and no save changes a flag its operator did not choose,       *)
(* unless the file was written since the page has read it (BasicView.tsx:  *)
(* 57-71, write-to-file/route.ts:10-16).                                   *)
(***************************************************************************)
FlagsSurvive ==
    /\ \/ \E p \in Pages : write[p].phase = "open"
       \/ file.content \in Config
       \/ broken \cap {"overlap", "died", "saved unloaded"} # {}
    /\ "unasked change" \in broken =>
           broken \cap {"overlap", "died", "saved unloaded"} # {}
=============================================================================
