----------------------------- MODULE MemoryBook -----------------------------
(***************************************************************************)
(* What the memories table promises its callers, whatever statements their *)
(* calls are made of: a book of entries in which a call takes effect in    *)
(* one step, once, or not at all.  MemoryStore implements it.              *)
(***************************************************************************)
CONSTANTS MemoryId, Title, Body, Normal, Call, Caller, NoMemory

VARIABLES
  book,  \* the entries written so far, by ID
  acted  \* the calls that took effect, and are told so

bookVars == <<book, acted>>

\* The owner's entry, as long as it is not forgotten.
Remembered(c, m) ==
  m \in DOMAIN book /\ book[m].owner = Caller[c] /\ ~book[m].forgotten

\* No other remembered entry of the caller says the same.
SaysNew(c, m, t, b) ==
  \A n \in DOMAIN book \ {m} :
    Remembered(c, n) => <<Normal[book[n].title], Normal[book[n].body]>> # <<Normal[t], Normal[b]>>

Write(c, m, t, b, v) ==
  /\ m \notin DOMAIN book
  /\ SaysNew(c, m, t, b)
  /\ book' = [n \in DOMAIN book \cup {m} |->
       IF n = m
       THEN [owner |-> Caller[c], title |-> t, body |-> b, visibility |-> v,
             replacedBy |-> NoMemory, forgotten |-> FALSE]
       ELSE book[n]]

Amend(c, m, t, b, v) ==
  /\ Remembered(c, m)
  /\ SaysNew(c, m, t, b)
  /\ book' = [book EXCEPT ![m] =
       [owner |-> @.owner, title |-> t, body |-> b, visibility |-> v,
        replacedBy |-> @.replacedBy, forgotten |-> @.forgotten]]

Show(c, m) == Remembered(c, m) /\ book' = [book EXCEPT ![m].visibility = "team"]

Forget(c, m) == Remembered(c, m) /\ book' = [book EXCEPT ![m].forgotten = TRUE]

\* Another entry takes its place: one that was written, maybe forgotten since.
Replace(c, m, n) ==
  /\ Remembered(c, m)
  /\ n \in DOMAIN book \ {m}
  /\ book' = [book EXCEPT ![m].replacedBy = n]

Acts(c) ==
  \E m \in MemoryId :
    \/ \E t \in Title, b \in Body, v \in {"private", "team"} :
         Write(c, m, t, b, v) \/ Amend(c, m, t, b, v)
    \/ Show(c, m) \/ Forget(c, m)
    \/ \E n \in MemoryId : Replace(c, m, n)

BookInit == book = [m \in {} |-> NoMemory] /\ acted = {}

BookNext == \E c \in Call \ acted : Acts(c) /\ acted' = acted \cup {c}

BookSpec == BookInit /\ [][BookNext]_bookVars
=============================================================================
