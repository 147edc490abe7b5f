------------------------- MODULE OAuthTokensProofs -------------------------
(***************************************************************************)
(* Theorems about OAuthTokens for any number of sends, fetches and clears  *)
(* of one token key: no refresh token is presented once the server has     *)
(* replaced it.  With calls of several keys this is false: a save of       *)
(* another key can put the replaced token back, in the window that the run *)
(* oauth_cross_key shows.                                                  *)
(***************************************************************************)
EXTENDS OAuthTokens, TLAPS

\* Calls of three kinds, all for one key; tokens have names of their own.
OneKeyAssumption ==
    /\ Ensures \cap Fetches = {} /\ Ensures \cap Clears = {} /\ Fetches \cap Clears = {}
    /\ Keys \cap Calls = {}
    /\ None \notin Tokens
    /\ KeyOf \in [Calls -> Keys]
    /\ \A o, p \in Calls : KeyOf[o] = KeyOf[p]

PCs == {"idle", "wait", "locked", "refresh", "fetch", "save", "read", "truncated",
        "done", "reused", "failed", "unacquired"}
Saving == {"save", "read", "truncated"}

\* One send at a time is between its load and its save.
Lock == \A e, o \in Ensures : Holds(e) /\ Holds(o) => e = o

\* A token that was written, and so was the one its refresh token came with.
Settled(t) ==
    /\ t \in Tokens
    /\ t \in Calls => pc[t] = "done"
    /\ refresh[t] \in Calls => pc[refresh[t]] = "done"

FileSettled == \A c \in Calls : file[KeyOf[c]] # None => Settled(file[KeyOf[c]])

CachedSettled ==
    \A o \in Calls : cached[o] # None => o \in Ensures /\ Settled(cached[o])

\* Where the refresh token of an acquired token comes from.
Issued ==
    \A o \in Ensures \cup Fetches :
        Acquired(o) =>
            \/ refresh[o] \in {o, None}
            \/ cached[o] # None /\ refresh[o] = refresh[cached[o]]

\* A send that has saved its token got it for r, and another one with it.
SpentBy(o, r) == pc[o] = "done" /\ Rotated(o) /\ refresh[cached[o]] = r

\* The file's token still has a refresh token the server takes.
FileUnspent ==
    \A c \in Calls, o \in Ensures :
        (file[KeyOf[c]] # None /\ refresh[file[KeyOf[c]]] # None)
            => ~SpentBy(o, refresh[file[KeyOf[c]]])

\* So has the token a send refreshes, until its answer is saved.
PresentedUnspent ==
    \A e, o \in Ensures :
        (pc[e] \in Saving \cup {"refresh"} /\ cached[e] # None)
            => ~SpentBy(o, refresh[cached[e]])

\* A send has a token to refresh while it refreshes it, and none to acquire one.
Before == {"idle", "wait", "locked", "fetch"}
Presents ==
    \A e \in Ensures :
        /\ pc[e] = "refresh" => cached[e] # None
        /\ pc[e] \in Before => cached[e] = None

IInv ==
    /\ TypeOK /\ Lock /\ FileSettled /\ CachedSettled /\ Issued
    /\ FileUnspent /\ PresentedUnspent /\ Presents

LEMMA InitIInv == OneKeyAssumption /\ Init => IInv
  <1> SUFFICES ASSUME OneKeyAssumption, Init
               PROVE  IInv
    OBVIOUS
  <1>1. TypeOK
    BY DEF Init, TypeOK, Content, Empty, Tokens, OneKeyAssumption
  <1>2. Lock /\ CachedSettled /\ Issued /\ FileUnspent /\ PresentedUnspent /\ Presents
    BY DEF Init, Lock, Holds, CachedSettled, Issued, Acquired, FileUnspent, SpentBy,
           PresentedUnspent, Presents, Before, Saving, Calls
  <1>3. FileSettled
    BY DEF Init, FileSettled, Settled, Tokens, OneKeyAssumption
  <1> QED  BY <1>1, <1>2, <1>3 DEF IInv

\* A step after which no token is newly acquired, presented or written.
LEMMA QuietStep ==
    ASSUME OneKeyAssumption, IInv, TypeOK', Lock',
           UNCHANGED <<refresh, cached>>,
           \A c \in Calls : file'[KeyOf[c]] \in {file[KeyOf[c]], None},
           \A o \in Calls : pc[o] = "done" => pc'[o] = "done",
           \A o \in Ensures \cup Fetches :
               pc'[o] \in Saving \cup {"done", "refresh"} =>
                   \/ pc[o] = pc'[o]
                   \/ pc[o] \in Saving /\ pc'[o] \in Saving,
           \A e \in Ensures : pc'[e] \in Before => pc[e] \in Before
    PROVE  IInv'
  <1>1. \A t \in Tokens : Settled(t) => Settled(t)'
    BY DEF Settled
  <1>2. FileSettled' /\ CachedSettled'
    BY <1>1 DEF IInv, FileSettled, CachedSettled, Settled
  <1>3. \A o \in Ensures \cup Fetches : Acquired(o)' => Acquired(o)
    BY DEF Acquired, Saving
  <1>4. Issued'
    BY <1>3 DEF IInv, Issued
  <1>5. \A o \in Ensures : \A r : SpentBy(o, r)' => SpentBy(o, r)
    BY <1>3 DEF SpentBy, Rotated, Saving
  <1>6. FileUnspent'
    BY <1>5 DEF IInv, FileUnspent
  <1>7. PresentedUnspent' /\ Presents'
    BY <1>5 DEF IInv, PresentedUnspent, Presents, Before, Saving
  <1> QED  BY <1>2, <1>4, <1>6, <1>7 DEF IInv

\* A call that moves on without taking the lock leaves it as it is.
LEMMA LockStep ==
    ASSUME OneKeyAssumption, IInv, NEW o \in Calls, NEW from, NEW to, Goto(o, from, to),
           \/ from \notin {"idle", "wait", "done", "reused", "failed", "unacquired"}
           \/ to \in {"idle", "wait", "done", "reused", "failed", "unacquired"}
           \/ o \notin Ensures
    PROVE  Lock'
  <1>1. \A e \in Ensures : Holds(e)' => Holds(e)
    BY DEF IInv, TypeOK, Goto, Holds, Calls
  <1> QED  BY <1>1 DEF IInv, Lock

LEMMA EnsureIInv ==
    ASSUME OneKeyAssumption, IInv, NEW e \in Ensures, Ensure(e) \/ Acquire(e)
    PROVE  IInv'
  <1>1. e \in Calls
    BY DEF Calls
  <1>2. TypeOK'
    BY <1>1 DEF IInv, TypeOK, Ensure, Acquire, Goto
  <1>3. Lock'
    <2>1. CASE Ensure(e)
      BY <1>1, <2>1, LockStep DEF Ensure
    <2>2. CASE Acquire(e)
      <3>1. \A o \in Ensures : ~Holds(o)
        BY <1>1, <2>2 DEF Acquire, OneKeyAssumption, Calls
      <3>2. \A o \in Ensures : Holds(o)' => o = e
        BY <1>1, <2>2, <3>1 DEF IInv, TypeOK, Acquire, Goto, Holds, Calls
      <3> QED  BY <3>2 DEF Lock
    <2> QED  BY <2>1, <2>2
  <1>4. UNCHANGED <<file, refresh, cached>>
    BY DEF Ensure, Acquire
  <1>5. \A o \in Calls :
           \/ pc'[o] = pc[o]
           \/ o = e /\ pc[e] \in {"idle", "wait"} /\ pc'[e] \in {"wait", "locked"}
    BY <1>1 DEF IInv, TypeOK, Ensure, Acquire, Goto
  <1> QED  BY <1>2, <1>3, <1>4, <1>5, QuietStep DEF Saving, Before, Calls

\* The token a send is to refresh comes from the file, so it is settled, and no
\* saved answer has replaced its refresh token.
LEMMA LoadIInv ==
    ASSUME OneKeyAssumption, IInv, NEW e \in Ensures, Load(e)
    PROVE  IInv'
  <1> DEFINE t == file[KeyOf[e]]
  <1>1. e \in Calls /\ KeyOf[e] \in Keys /\ t \in Tokens \cup {None}
    BY DEF Calls, OneKeyAssumption, IInv, TypeOK, Content
  <1>2. PICK to \in {"reused", "refresh", "unacquired", "fetch", "failed"} : Goto(e, "locked", to)
    BY DEF Load, WithoutRefresh
  <1>3. TypeOK'
    BY <1>1, <1>2 DEF IInv, TypeOK, Load, Goto
  <1>4. Lock'
    BY <1>1, <1>2, LockStep
  <1>5. UNCHANGED <<file, refresh>>
    BY DEF Load
  <1>6. \/ UNCHANGED cached /\ pc'[e] # "refresh"
        \/ t # None /\ refresh[t] # None /\ cached' = [cached EXCEPT ![e] = t]
    BY <1>1, <1>2 DEF IInv, TypeOK, Load, Goto, WithoutRefresh
  <1>7. \A o \in Calls : o # e => pc'[o] = pc[o] /\ cached'[o] = cached[o]
    BY <1>1, <1>2, <1>6 DEF IInv, TypeOK, Goto
  <1>8. pc[e] = "locked" /\ pc'[e] \in {"reused", "refresh", "unacquired", "fetch", "failed"}
    BY <1>1, <1>2 DEF IInv, TypeOK, Goto
  <1>9. \A x \in Tokens : Settled(x) => Settled(x)'
    BY <1>5, <1>7, <1>8 DEF Settled
  <1>10. t # None => Settled(t)
    BY <1>1 DEF IInv, FileSettled
  <1>11. FileSettled'
    BY <1>5, <1>9 DEF IInv, FileSettled, Settled
  <1>12. cached'[e] = cached[e] \/ (t # None /\ refresh[t] # None /\ cached'[e] = t)
    BY <1>1, <1>6 DEF IInv, TypeOK
  <1>13. CachedSettled'
    BY <1>7, <1>9, <1>10, <1>12 DEF IInv, CachedSettled, Settled
  <1>14. Issued'
    BY <1>5, <1>7, <1>8 DEF IInv, Issued, Acquired, Calls
  <1>15. \A o \in Ensures : \A r : SpentBy(o, r)' => SpentBy(o, r)
    BY <1>5, <1>7, <1>8 DEF SpentBy, Rotated, Acquired, Calls
  <1>16. FileUnspent'
    BY <1>5, <1>15 DEF IInv, FileUnspent
  <1>17. \A o \in Ensures : (t # None /\ refresh[t] # None) => ~SpentBy(o, refresh[t])
    BY <1>1 DEF IInv, FileUnspent
  <1>18. pc'[e] = "refresh" => cached'[e] = t /\ t # None /\ refresh[t] # None
    BY <1>1, <1>6 DEF IInv, TypeOK
  <1>181. pc'[e] = "fetch" => cached'[e] = None
    BY <1>1, <1>2, <1>8 DEF IInv, TypeOK, Presents, Before, Load, Goto, WithoutRefresh
  <1>19. PresentedUnspent'
    <2> SUFFICES ASSUME NEW p \in Ensures, NEW o \in Ensures,
                        pc'[p] \in Saving \cup {"refresh"}, cached'[p] # None
                 PROVE  ~SpentBy(o, refresh[cached[p]])'
      BY DEF PresentedUnspent
    <2>1. CASE p = e
      BY <1>5, <1>8, <1>15, <1>17, <1>18, <2>1 DEF Saving
    <2>2. CASE p # e
      BY <1>5, <1>7, <1>15, <2>2 DEF IInv, PresentedUnspent, Calls
    <2> QED  BY <2>1, <2>2
  <1>20. Presents'
    BY <1>7, <1>8, <1>18, <1>181 DEF IInv, Presents, Before, Calls
  <1> QED  BY <1>3, <1>4, <1>11, <1>13, <1>14, <1>16, <1>19, <1>20 DEF IInv

\* An answer names the new token; no settled token is the answering call, and no
\* settled refresh token came with it.
LEMMA AnswerIInv ==
    ASSUME OneKeyAssumption, IInv, NEW o \in Ensures \cup Fetches,
           (Refreshed(o) /\ o \in Ensures) \/ Fetched(o)
    PROVE  IInv'
  <1>1. o \in Calls /\ o \in Tokens
    BY DEF Calls, Tokens
  <1>2. PICK from \in {"refresh", "fetch"} : Goto(o, from, "save")
    BY DEF Refreshed, Fetched
  <1>3. pc[o] = from /\ pc'[o] = "save" /\ \A p \in Calls : p # o => pc'[p] = pc[p]
    BY <1>1, <1>2 DEF IInv, TypeOK, Goto
  <1>4. UNCHANGED <<file, cached, expired, interactive, read>>
    BY DEF Refreshed, Fetched
  <1>5. PICK r \in {o, None, refresh[cached[o]]} :
           /\ refresh' = [refresh EXCEPT ![o] = r]
           /\ r \in {o, None} \/ (cached[o] # None /\ r = refresh[cached[o]])
    <2>1. CASE Refreshed(o) /\ o \in Ensures
      <3>1. cached[o] # None
        BY <1>1, <2>1 DEF Refreshed, Goto, IInv, Presents
      <3> QED  BY <2>1, <3>1 DEF Refreshed
    <2>2. CASE Fetched(o)
      BY <2>2 DEF Fetched
    <2> QED  BY <2>1, <2>2
  <1>6. r \in Tokens \cup {None}
    BY <1>1, <1>5 DEF IInv, TypeOK
  <1>7. TypeOK'
    BY <1>1, <1>2, <1>4, <1>5, <1>6 DEF IInv, TypeOK, Goto
  <1>8. Lock'
    BY <1>1, <1>2, LockStep
  <1>9. \A x \in Tokens : Settled(x) => x # o /\ refresh'[x] = refresh[x] /\ Settled(x)'
    BY <1>1, <1>3, <1>5 DEF IInv, TypeOK, Settled
  <1>10. FileSettled'
    BY <1>4, <1>9 DEF IInv, FileSettled, Settled
  <1>11. CachedSettled'
    BY <1>4, <1>9 DEF IInv, CachedSettled, Settled
  <1>12. \A p \in Calls : cached[p] # None => refresh'[cached[p]] = refresh[cached[p]]
    BY <1>9 DEF IInv, CachedSettled, Settled
  <1>13. refresh'[o] = r /\ \A x \in Tokens : x # o => refresh'[x] = refresh[x]
    BY <1>1, <1>5 DEF IInv, TypeOK
  <1>14. Issued'
    <2> SUFFICES ASSUME NEW p \in Ensures \cup Fetches, Acquired(p)'
                 PROVE  \/ refresh'[p] \in {p, None}
                        \/ cached'[p] # None /\ refresh'[p] = refresh'[cached'[p]]
      BY DEF Issued
    <2>0. p \in Calls /\ p \in Tokens
      BY DEF Calls, Tokens
    <2>1. CASE p = o
      BY <1>1, <1>4, <1>5, <1>12, <1>13, <2>1
    <2>2. CASE p # o
      <3>1. Acquired(p) /\ refresh'[p] = refresh[p]
        BY <1>3, <1>13, <2>0, <2>2 DEF Acquired
      <3> QED  BY <1>4, <1>12, <2>0, <3>1 DEF IInv, Issued
    <2> QED  BY <2>1, <2>2
  <1>15. \A p \in Ensures : \A s : SpentBy(p, s)' => SpentBy(p, s)
    BY <1>3, <1>4, <1>12, <1>13 DEF SpentBy, Rotated, Acquired, Calls, Tokens
  <1>16. FileUnspent'
    BY <1>4, <1>9, <1>15 DEF IInv, FileUnspent, FileSettled, Settled
  <1>17. PresentedUnspent'
    <2>1. \A p \in Ensures : pc'[p] \in Saving \cup {"refresh"} /\ cached[p] # None
             => pc[p] \in Saving \cup {"refresh"}
      BY <1>2, <1>3 DEF Saving, Before, Calls, IInv, Presents
    <2> QED  BY <1>4, <1>12, <1>15, <2>1 DEF IInv, PresentedUnspent, Calls
  <1>18. Presents'
    BY <1>3, <1>4 DEF IInv, Presents, Before, Calls
  <1> QED  BY <1>7, <1>8, <1>10, <1>11, <1>14, <1>16, <1>17, <1>18 DEF IInv

\* A refresh that failed leaves the send without a token to refresh.
LEMMA RefreshFailedIInv ==
    ASSUME OneKeyAssumption, IInv, NEW e \in Ensures, RefreshFailed(e)
    PROVE  IInv'
  <1>1. e \in Calls
    BY DEF Calls
  <1>2. PICK to \in {"failed", "fetch"} : Goto(e, "refresh", to)
    BY DEF RefreshFailed, WithoutRefresh
  <1>3. pc[e] = "refresh" /\ pc'[e] = to /\ \A o \in Calls : o # e => pc'[o] = pc[o]
    BY <1>1, <1>2 DEF IInv, TypeOK, Goto
  <1>4. UNCHANGED <<file, refresh, expired, interactive, read>>
    BY DEF RefreshFailed
  <1>5. cached'[e] = None /\ \A o \in Calls : o # e => cached'[o] = cached[o]
    BY <1>1 DEF IInv, TypeOK, RefreshFailed
  <1>6. TypeOK'
    BY <1>1, <1>2, <1>4 DEF IInv, TypeOK, RefreshFailed, Goto
  <1>7. Lock'
    BY <1>1, <1>2, LockStep
  <1>8. \A x \in Tokens : Settled(x) => Settled(x)'
    BY <1>3, <1>4 DEF Settled
  <1>9. FileSettled' /\ CachedSettled'
    BY <1>4, <1>5, <1>8 DEF IInv, FileSettled, CachedSettled, Settled
  <1>10. Issued'
    BY <1>3, <1>4, <1>5 DEF IInv, Issued, Acquired, Calls
  <1>11. \A o \in Ensures : \A r : SpentBy(o, r)' => SpentBy(o, r)
    BY <1>3, <1>4, <1>5 DEF SpentBy, Rotated, Acquired, Calls
  <1>12. FileUnspent'
    BY <1>4, <1>11 DEF IInv, FileUnspent
  <1>13. PresentedUnspent'
    BY <1>3, <1>4, <1>5, <1>11 DEF IInv, PresentedUnspent, Calls
  <1>14. Presents'
    BY <1>3, <1>5 DEF IInv, Presents, Before, Calls
  <1> QED  BY <1>6, <1>7, <1>9, <1>10, <1>12, <1>13, <1>14 DEF IInv

LEMMA FetchIInv ==
    ASSUME OneKeyAssumption, IInv,
           \/ \E f \in Fetches : Fetch(f)
           \/ \E o \in Ensures \cup Fetches : FetchFailed(o)
    PROVE  IInv'
  <1>1. PICK o \in Ensures \cup Fetches, from \in {"idle", "fetch"}, to \in {"fetch", "failed"} :
           /\ Goto(o, from, to)
           /\ to = "failed" \/ o \in Fetches
    BY DEF Fetch, FetchFailed
  <1>2. o \in Calls /\ UNCHANGED <<interactive, file, expired, refresh, cached, read>>
    BY DEF Calls, Fetch, FetchFailed
  <1>3. pc[o] = from /\ pc'[o] = to /\ \A p \in Calls : p # o => pc'[p] = pc[p]
    BY <1>1, <1>2 DEF IInv, TypeOK, Goto
  <1>4. TypeOK'
    BY <1>1, <1>2 DEF IInv, TypeOK, Goto
  <1>5. to = "failed" \/ o \notin Ensures
    BY <1>1 DEF OneKeyAssumption
  <1>6. Lock'
    BY <1>1, <1>2, <1>5, LockStep
  <1>7. \A e \in Ensures : pc'[e] \in Before => pc[e] \in Before
    BY <1>3, <1>5 DEF Before, Calls
  <1> QED  BY <1>2, <1>3, <1>4, <1>6, <1>7, QuietStep DEF Saving, Calls

\* The steps of a save or a clear before its write.
LEMMA CacheIInv ==
    ASSUME OneKeyAssumption, IInv, NEW o \in Calls,
           SaveRead(o) \/ (o \in Clears /\ ClearRead(o)) \/ WriteFail(o) \/ Truncate(o)
    PROVE  IInv'
  <1>1. PICK from \in Saving \cup {"idle"}, to \in Saving \cup {"done", "failed"} :
           /\ Goto(o, from, to)
           /\ from = "idle" \/ to = "done" => o \in Clears
    BY DEF SaveRead, ClearRead, WriteFail, Truncate, Saving
  <1>2. UNCHANGED <<interactive, expired, refresh, cached>>
    BY DEF SaveRead, ClearRead, WriteFail, Truncate
  <1>3. pc[o] = from /\ pc'[o] = to /\ \A p \in Calls : p # o => pc'[p] = pc[p]
    BY <1>1 DEF IInv, TypeOK, Goto, Saving
  <1>4. TypeOK'
    <2>1. file' \in Content /\ read' \in [Calls -> Content]
      BY DEF IInv, TypeOK, SaveRead, ClearRead, WriteFail, Truncate, Content, Empty
    <2> QED  BY <1>1, <1>2, <2>1 DEF IInv, TypeOK, Goto, Saving
  <1>5. o \in Clears => o \notin Ensures \cup Fetches
    BY DEF OneKeyAssumption
  <1>6. Lock'
    BY <1>1, <1>5, LockStep DEF Saving
  <1>7. \A c \in Calls : file'[KeyOf[c]] \in {file[KeyOf[c]], None}
    BY DEF SaveRead, ClearRead, WriteFail, Truncate, Empty, OneKeyAssumption
  <1>8. \A e \in Ensures : pc'[e] \in Before => pc[e] \in Before
    BY <1>1, <1>3 DEF Before, Saving, Calls
  <1>9. \A p \in Calls : pc[p] = "done" => pc'[p] = "done"
    BY <1>1, <1>3 DEF Saving
  <1>10. \A p \in Ensures \cup Fetches :
            pc'[p] \in Saving \cup {"done", "refresh"} =>
               \/ pc[p] = pc'[p]
               \/ pc[p] \in Saving /\ pc'[p] \in Saving
    BY <1>1, <1>3, <1>5 DEF Saving, Calls
  <1> QED  BY <1>2, <1>4, <1>6, <1>7, <1>8, <1>9, <1>10, QuietStep

\* A written token is settled; a refresh token it got itself nobody was given
\* before, and the one it carried over nobody has spent while it held the lock.
LEMMA WriteIInv ==
    ASSUME OneKeyAssumption, IInv, NEW o \in Calls, Write(o)
    PROVE  IInv'
  <1>1. pc[o] = "truncated" /\ pc'[o] = "done" /\ \A p \in Calls : p # o => pc'[p] = pc[p]
    BY DEF IInv, TypeOK, Write, Goto
  <1>2. UNCHANGED <<interactive, expired, refresh, cached>>
    BY DEF Write
  <1>3. TypeOK'
    <2>1. read[o] \in Content /\ Empty \in Content
      BY DEF IInv, TypeOK, Content, Empty
    <2>2. [read[o] EXCEPT ![KeyOf[o]] = IF o \in Clears THEN None ELSE o] \in Content
      BY <2>1 DEF Content, Tokens
    <2>3. file' \in Content /\ read' \in [Calls -> Content]
      BY <2>1, <2>2 DEF IInv, TypeOK, Write
    <2> QED  BY <1>1, <1>2, <2>3 DEF IInv, TypeOK, Write, Goto
  <1>4. Lock'
    BY LockStep DEF Write
  <1>5. \A c \in Calls :
           \/ file'[KeyOf[c]] = None
           \/ file'[KeyOf[c]] = o /\ o \in Ensures \cup Fetches
    <2>1. read[o] \in Content
      BY DEF IInv, TypeOK
    <2> QED  BY <2>1 DEF Write, Content, Empty, OneKeyAssumption, Calls
  <1>6. \A x \in Tokens : Settled(x) => x # o /\ refresh[x] # o /\ Settled(x)'
    BY <1>1, <1>2 DEF Settled
  <1>7. o \in Ensures \cup Fetches =>
           \/ refresh[o] \in {o, None}
           \/ cached[o] # None /\ refresh[o] = refresh[cached[o]]
    BY <1>1 DEF IInv, Issued, Acquired, OneKeyAssumption
  <1>8. o \in Ensures \cup Fetches => Settled(o)'
    <2>1. o \in Tokens /\ None \notin Calls
      BY DEF Tokens, OneKeyAssumption
    <2>2. cached[o] # None => Settled(cached[o])
      BY DEF IInv, CachedSettled
    <2> QED  BY <1>1, <1>2, <1>7, <2>1, <2>2 DEF Settled
  <1>9. FileSettled'
    BY <1>5, <1>8 DEF FileSettled, Settled
  <1>10. CachedSettled'
    BY <1>2, <1>6 DEF IInv, CachedSettled, Settled
  <1>11. Issued'
    <2>1. \A p \in Ensures \cup Fetches : Acquired(p)' => Acquired(p)
      BY <1>1 DEF Acquired, Calls
    <2> QED  BY <1>2, <2>1 DEF IInv, Issued
  <1>12. \A p \in Ensures : \A r : SpentBy(p, r)' =>
            \/ SpentBy(p, r)
            \/ p = o /\ Rotated(o)' /\ refresh[cached[o]] = r
    BY <1>1, <1>2 DEF SpentBy, Rotated, Acquired, Calls
  <1>13. \A p \in Calls : cached[p] # None => refresh[cached[p]] # o
    BY <1>6 DEF IInv, CachedSettled, Settled
  <1>14. FileUnspent'
    <2> SUFFICES ASSUME NEW c \in Calls, NEW p \in Ensures,
                        file'[KeyOf[c]] = o, o \in Ensures \cup Fetches, refresh[o] # None,
                        SpentBy(p, refresh[o])'
                 PROVE  FALSE
      BY <1>2, <1>5 DEF FileUnspent
    <2>1. p \in Calls /\ cached[p] # None /\ refresh[cached[p]] = refresh[o]
      BY <1>2 DEF SpentBy, Rotated, Calls
    <2>2. refresh[o] # o
      BY <1>13, <2>1
    <2>3. cached[o] # None /\ refresh[o] = refresh[cached[o]]
      BY <1>7, <2>2
    <2>4. o \in Ensures
      BY <2>3 DEF IInv, CachedSettled
    <2>5. ~SpentBy(p, refresh[o])
      BY <1>1, <2>3, <2>4 DEF IInv, PresentedUnspent, Saving
    <2>6. p = o /\ refresh[o] = o
      BY <1>2, <1>12, <2>5 DEF Rotated
    <2> QED  BY <2>2, <2>6
  <1>15. PresentedUnspent'
    <2> SUFFICES ASSUME NEW e \in Ensures, NEW p \in Ensures,
                        pc'[e] \in Saving \cup {"refresh"}, cached[e] # None,
                        SpentBy(p, refresh[cached[e]])'
                 PROVE  FALSE
      BY <1>2 DEF PresentedUnspent
    <2>1. e # o /\ pc[e] = pc'[e] /\ e \in Calls
      BY <1>1 DEF Saving, Calls
    <2>2. ~SpentBy(p, refresh[cached[e]])
      BY <2>1 DEF IInv, PresentedUnspent
    <2>3. p = o
      BY <1>1, <1>2, <2>2 DEF SpentBy, Rotated, Acquired, Calls
    <2>4. Holds(o) /\ Holds(e)
      BY <1>1, <2>1, <2>3 DEF Holds, Saving
    <2> QED  BY <2>1, <2>3, <2>4 DEF IInv, Lock
  <1>16. Presents'
    BY <1>1, <1>2 DEF IInv, Presents, Before, Calls
  <1> QED  BY <1>3, <1>4, <1>9, <1>10, <1>11, <1>14, <1>15, <1>16 DEF IInv

LEMMA NextIInv == OneKeyAssumption /\ IInv /\ [Next]_vars => IInv'
  <1> SUFFICES ASSUME OneKeyAssumption, IInv, [Next]_vars
               PROVE  IInv'
    OBVIOUS
  <1>1. CASE \E e \in Ensures : EnsureStep(e)
    BY <1>1, EnsureIInv, LoadIInv, AnswerIInv, RefreshFailedIInv DEF EnsureStep
  <1>2. CASE \E f \in Fetches : Fetch(f)
    BY <1>2, FetchIInv
  <1>3. CASE \E c \in Clears : ClearRead(c)
    BY <1>3, CacheIInv DEF Calls
  <1>4. CASE \E o \in Ensures \cup Fetches : Fetched(o) \/ FetchFailed(o)
    BY <1>4, AnswerIInv, FetchIInv
  <1>5. CASE \E o \in Calls : CacheStep(o)
    BY <1>5, CacheIInv, WriteIInv DEF CacheStep
  <1>6. CASE (\E t \in Tokens : Expire(t)) \/ UNCHANGED vars
    <2>1. TypeOK'
      BY <1>6 DEF IInv, TypeOK, Expire, vars
    <2>2. UNCHANGED <<file, refresh, pc, cached>>
      BY <1>6 DEF Expire, vars
    <2>3. Lock'
      BY <2>2 DEF IInv, Lock, Holds
    <2> QED  BY <2>1, <2>2, <2>3, QuietStep
  <1> QED  BY <1>1, <1>2, <1>3, <1>4, <1>5, <1>6 DEF Next

LEMMA Invariant == ASSUME OneKeyAssumption PROVE Spec => []IInv
  <1>1. Init => IInv
    BY InitIInv
  <1>2. IInv /\ [Next]_vars => IInv'
    BY NextIInv
  <1> QED  BY <1>1, <1>2, PTL DEF Spec

\* Every step of the calls of one key keeps the types of the state.
THEOREM TypeCorrect == ASSUME OneKeyAssumption PROVE Spec => []TypeOK
  <1>1. IInv => TypeOK
    BY DEF IInv
  <1> QED  BY <1>1, Invariant, PTL

\* However many sends, fetches and clears of a key run, fail or expire beside
\* each other, ensure_token presents no refresh token that an answer to another
\* call has replaced, unless that call failed to save.
THEOREM RefreshTokenSpentOnceHolds ==
    ASSUME OneKeyAssumption PROVE Spec => []RefreshTokenSpentOnce
  <1>1. IInv => RefreshTokenSpentOnce
    <2> SUFFICES ASSUME IInv, NEW e \in Ensures, NEW o \in Ensures,
                        pc[e] = "refresh", Rotated(o), refresh[cached[e]] = refresh[cached[o]]
                 PROVE  FALSE
      BY DEF RefreshTokenSpentOnce
    <2>1. cached[e] # None
      BY DEF IInv, Presents
    <2>2. CASE pc[o] = "done"
      BY <2>1, <2>2 DEF IInv, PresentedUnspent, SpentBy
    <2>3. CASE pc[o] # "done"
      <3>1. Holds(e) /\ Holds(o) /\ pc[o] # "refresh"
        BY <2>3 DEF Holds, Rotated, Acquired
      <3> QED  BY <3>1 DEF IInv, Lock
    <2> QED  BY <2>2, <2>3
  <1> QED  BY <1>1, Invariant, PTL
=============================================================================
