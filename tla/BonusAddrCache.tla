--------------------------- MODULE BonusAddrCache ---------------------------
(***************************************************************************)
(* BonusAddrCache of db/cache.cpp: the sum invested in one bonus address,  *)
(* computed from the database and kept until it is marked dirty.  The      *)
(* writers of the list of an investor's outputs mark it before they change *)
(* the list, long before they commit.  getAmount reads committed lists one *)
(* after the other and holds the mutex that isDirty needs.                 *)
(***************************************************************************)
EXTENDS DbReadWriter, Integers, FiniteSetsExt

CONSTANTS
    InvestAddrs,    \* the key of the list of investors
    Investors,      \* keys of the lists of outputs; values of InvestAddrs
    Utxos,          \* values of those lists
    worth,          \* the amount of each
    kMinInvestAmt

\* The list of investors is stored under a key of its own.
ASSUME CacheAssumption ==
    /\ InvestAddrs \in Keys \ Investors /\ Investors \subseteq Keys
    /\ Investors \cup Utxos \subseteq Values
    /\ IsFiniteSet(Investors) /\ IsFiniteSet(Utxos)
    /\ worth \in [Utxos -> Int] /\ kMinInvestAmt \in Int

VARIABLES
    dirty, amount,  \* of the bonus address
    marked,         \* what each writer is about to do after isDirty, or None
    reading,        \* locals of getAmount: [todo, sum], or None
    quiet,          \* history: nothing was committed since getAmount began
    answer          \* history: what it returned last, if nothing was
                    \* committed since, or None

cacheVars == <<dirty, amount, marked, reading, quiet, answer>>
vars == <<dbVars, cacheVars>>

Init ==
    /\ DbInit
    /\ \A k \in Keys : store[k] \subseteq IF k = InvestAddrs THEN Investors ELSE Utxos
    /\ dirty = TRUE /\ amount = 0
    /\ marked = [w \in Writers |-> None]
    /\ reading = None /\ quiet = TRUE /\ answer = None

Total(f, S) == MapThenSumSet(LAMBDA x : f[x], S)

Worth(list) == Total(worth, list)

-----------------------------------------------------------------------------
(* Writers.                                                                *)

\* Set- and RemoveInvestAddrByBonusAddr.
InvestAddr(w) ==
    /\ marked[w] = None
    /\ \E i \in Investors : MergeValue(w, InvestAddrs, i) \/ RemoveMergeValue(w, InvestAddrs, i)
    /\ UNCHANGED cacheVars

\* Set- and RemoveBonusAddrInvestAddrUtxoByBonusAddr, first line.
isDirty(w) ==
    /\ w \in open /\ marked[w] = None /\ reading = None
    /\ \E i \in Investors : marked' = [marked EXCEPT ![w] = i]
    /\ dirty' = TRUE
    /\ UNCHANGED <<dbVars, amount, reading, quiet, answer>>

InvestUtxo(w) ==
    /\ marked[w] # None
    /\ \E u \in Utxos : MergeValue(w, marked[w], u) \/ RemoveMergeValue(w, marked[w], u)
    /\ marked' = [marked EXCEPT ![w] = None]
    /\ UNCHANGED <<dirty, amount, reading, quiet, answer>>

Begin(w) == TransactionInit(w) /\ UNCHANGED cacheVars

Commit(w) ==
    /\ marked[w] = None /\ TransactionCommit(w)
    /\ quiet' = FALSE /\ answer' = None
    /\ UNCHANGED <<dirty, amount, marked, reading>>

RollBack(w) ==
    /\ TransactionRollBack(w)
    /\ marked' = [marked EXCEPT ![w] = None]
    /\ UNCHANGED <<dirty, amount, reading, quiet, answer>>

-----------------------------------------------------------------------------
(* getAmount.                                                              *)

\* Mutant: an amount that is not dirty is returned whatever it is.
CachedClean == ~dirty

\* Whether the cached amount is returned: it has to be enough, too.
Cached == ~dirty /\ amount >= kMinInvestAmt

getAmount ==
    /\ reading = None
    /\ quiet' = TRUE
    /\ IF Cached
       THEN answer' = amount /\ UNCHANGED reading
       ELSE answer' = None /\ reading' = [todo |-> store[InvestAddrs], sum |-> 0]
    /\ UNCHANGED <<dbVars, dirty, amount, marked>>

GetBonusAddrInvestUtxos ==
    /\ reading # None
    /\ \E i \in reading.todo :
        reading' = [todo |-> reading.todo \ {i}, sum |-> reading.sum + Worth(store[i])]
    /\ UNCHANGED <<dbVars, dirty, amount, marked, quiet, answer>>

getAmountReturns ==
    /\ reading # None /\ reading.todo = {}
    /\ amount' = reading.sum /\ dirty' = FALSE
    /\ reading' = None
    /\ answer' = IF quiet THEN reading.sum ELSE None
    /\ UNCHANGED <<dbVars, marked, quiet>>

\* A list or a transaction cannot be read: -1 to -4.
getAmountFails ==
    /\ reading # None
    /\ reading' = None
    /\ UNCHANGED <<dbVars, dirty, amount, marked, quiet, answer>>

-----------------------------------------------------------------------------
Writer(w) ==
    Begin(w) \/ InvestAddr(w) \/ isDirty(w) \/ InvestUtxo(w) \/ Commit(w) \/ RollBack(w)

Reader == getAmount \/ GetBonusAddrInvestUtxos \/ getAmountReturns \/ getAmountFails

Next == Reader \/ \E w \in Writers : Writer(w)

Spec == Init /\ [][Next]_vars

-----------------------------------------------------------------------------
\* The sum invested according to the database.
Invested == Total([i \in Investors |-> Worth(store[i])], store[InvestAddrs])

\* A node whose investment suffices is not taken for one whose does not: a
\* getAmount during which nothing is committed returns enough if the database
\* says so, although a cached amount may have been read between isDirty and the
\* commit and thus be old.
EnoughIsSeen == answer # None /\ Invested >= kMinInvestAmt => answer >= kMinInvestAmt
=============================================================================
