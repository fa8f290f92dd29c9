---------------------------- MODULE ShopSources ----------------------------
(***************************************************************************)
(* One supplier of the shop (hysteria/web_api/shop_store.py): the cached   *)
(* rows of its catalog in a file of their own, and the merchant's settings *)
(* with the retail price of a row, the switch and the generation of the    *)
(* source.  Administrators save the settings of a page they loaded, delete *)
(* the source or add it again; a refresh reads the supplier for up to half *)
(* a minute without the settings' lock.  A row and a price carry, as a     *)
(* ghost, the generation they were made in; a time is the ticks left.      *)
(* The other suppliers, the copy and the counters of visits are left out.  *)
(***************************************************************************)
EXTENDS Integers

CONSTANTS Admins, Refreshers,   \* requests that save, and tasks that refresh
          MaxRevision, MaxFlaws,
          TTL, Backoff, Cooldown

VARIABLES settings,     \* source-merchant.json
          cache,        \* source-<provider>.json
          settingsLock, refreshLock,
          page,         \* what each administrator loaded
          change,       \* the deletion or addition under way
          refresh, flaws

shopVars == <<settings, cache, settingsLock, refreshLock, page, change, refresh, flaws>>

None == -1
NoCache == [rows |-> None, fresh |-> 0, failed |-> FALSE, retry |-> 0, manual |-> 0]
IdleRefresh == [pc |-> "idle", generation |-> 0, source |-> NoCache]
Unlocked == "nobody"

ShopInit ==
    /\ settings = [revision |-> 0, price |-> None, on |-> TRUE, generation |-> 0, deleted |-> FALSE]
    /\ cache = NoCache /\ settingsLock = Unlocked /\ refreshLock = Unlocked
    /\ page = [a \in Admins |-> settings]
    /\ change = [pc |-> "idle", deleted |-> FALSE]
    /\ refresh = [t \in Refreshers |-> IdleRefresh] /\ flaws = 0

-----------------------------------------------------------------------------

Flaw == flaws < MaxFlaws /\ flaws' = flaws + 1
KeepPanels == UNCHANGED <<page, change>>
KeepRefreshes == UNCHANGED <<refresh, refreshLock>>
Free == settingsLock = Unlocked

Load(a) ==
    /\ page' = [page EXCEPT ![a] = settings] /\ KeepRefreshes
    /\ UNCHANGED <<settings, cache, settingsLock, change, flaws>>

\* Keys that a save may mention: those cached or priced already.
Known == cache.rows # None \/ settings.price # None
Current(a) == page[a].revision = settings.revision

\* Neither the switch nor a price is kept for a source that is deleted.
Saves(price, on) ==
    /\ price # None => ~settings.deleted /\ Known
    /\ settings' = [settings EXCEPT !.price = price, !.on = (on \/ settings.deleted),
                                    !.revision = settings.revision + 1]

\* Mutant: the last save wins.
UpdateAnyway(a) ==
    /\ Free /\ settings.revision < MaxRevision /\ KeepRefreshes
    /\ \E price \in {None, page[a].price, settings.generation}, on \in BOOLEAN : Saves(price, on)
    /\ UNCHANGED <<cache, settingsLock, page, change, flaws>>

\* _update: the price the page had, another one, or none.
Update(a) ==
    /\ Free /\ Current(a) /\ settings.revision < MaxRevision /\ KeepRefreshes
    /\ \E price \in {None, page[a].price, settings.generation}, on \in BOOLEAN : Saves(price, on)
    /\ UNCHANGED <<cache, settingsLock, page, change, flaws>>

\* _change_source: the cache goes before the settings are saved; both under the lock.
BeginChange(a, deleted) ==
    /\ Free /\ Current(a) /\ settings.deleted # deleted /\ settings.revision < MaxRevision
    /\ cache' = NoCache /\ settingsLock' = "change"
    /\ change' = [pc |-> "save", deleted |-> deleted]
    /\ KeepRefreshes /\ UNCHANGED <<settings, page, flaws>>

Changed ==
    [revision |-> settings.revision + 1, price |-> None, on |-> TRUE, deleted |-> change.deleted,
     generation |-> settings.generation + 1]

\* The save may fail, before or after the file is replaced.
FinishChange ==
    /\ change.pc = "save" /\ settingsLock' = Unlocked /\ change' = [change EXCEPT !.pc = "idle"]
    /\ \/ settings' = Changed /\ UNCHANGED flaws
       \/ settings' \in {settings, Changed} /\ Flaw
    /\ KeepRefreshes /\ UNCHANGED <<cache, page>>

-----------------------------------------------------------------------------

RefreshAt(t, pc) == refresh[t].pc = pc
Stale(source) == source.failed \/ source.rows = None \/ source.fresh = 0

\* refresh: one at a time, in all processes.
Acquire(t) ==
    /\ RefreshAt(t, "idle") /\ refreshLock = Unlocked /\ refreshLock' = t
    /\ refresh' = [refresh EXCEPT ![t].pc = "prepare"]
    /\ KeepPanels /\ UNCHANGED <<settings, cache, settingsLock, flaws>>

Release(t) == refreshLock' = Unlocked /\ refresh' = [refresh EXCEPT ![t] = IdleRefresh]

\* _prepare_refresh: the next attempt is put off before the supplier is asked.
Prepare(t, manual) ==
    LET source == [cache EXCEPT !.manual = Cooldown, !.retry = Backoff]
    IN /\ RefreshAt(t, "prepare") /\ Free
       /\ IF settings.deleted \/ ~settings.on \/ cache.retry > 0
             \/ (manual /\ cache.manual > 0) \/ (~manual /\ ~Stale(cache))
          THEN Release(t) /\ UNCHANGED cache
          ELSE /\ cache' = source /\ UNCHANGED refreshLock
               /\ refresh' = [refresh EXCEPT ![t] = [pc |-> "fetch", source |-> source,
                                                     generation |-> settings.generation]]
       /\ KeepPanels /\ UNCHANGED <<settings, settingsLock, flaws>>

\* The supplier answers, or not within 30 seconds; the rows it had stay then.
Fetch(t) ==
    LET got == [rows |-> refresh[t].generation, fresh |-> TTL, failed |-> FALSE,
                retry |-> 0, manual |-> refresh[t].source.manual]
        kept == [refresh[t].source EXCEPT !.failed = TRUE, !.retry = Backoff]
    IN /\ RefreshAt(t, "fetch")
       /\ \/ refresh' = [refresh EXCEPT ![t].pc = "commit", ![t].source = got] /\ UNCHANGED flaws
          \/ refresh' = [refresh EXCEPT ![t].pc = "commit", ![t].source = kept] /\ Flaw
       /\ KeepPanels /\ UNCHANGED <<settings, cache, settingsLock, refreshLock>>

\* Mutant: the answer is kept unless the source is deleted by now.
CommitUnfenced(t) ==
    /\ RefreshAt(t, "commit") /\ Free /\ Release(t)
    /\ cache' = IF settings.deleted THEN cache ELSE refresh[t].source
    /\ KeepPanels /\ UNCHANGED <<settings, settingsLock, flaws>>

\* _commit_refresh.
Commit(t) ==
    /\ RefreshAt(t, "commit") /\ Free /\ Release(t)
    /\ cache' = IF settings.deleted \/ settings.generation # refresh[t].generation
                THEN cache ELSE refresh[t].source
    /\ KeepPanels /\ UNCHANGED <<settings, settingsLock, flaws>>

\* A save fails, the settings' lock is not had within two seconds, or the task is
\* cancelled, which waits for the thread it is in.
Abandon(t) ==
    /\ refresh[t].pc \in {"prepare", "fetch", "commit"} /\ Flaw /\ Release(t)
    /\ KeepPanels /\ UNCHANGED <<settings, cache, settingsLock>>

\* The process dies: its locks are free, the files stay.
Die ==
    /\ Flaw /\ settingsLock' = Unlocked /\ refreshLock' = Unlocked
    /\ change' = [change EXCEPT !.pc = "idle"]
    /\ refresh' = [t \in Refreshers |-> IdleRefresh] /\ UNCHANGED <<settings, cache, page>>

Less(n) == IF n > 0 THEN n - 1 ELSE 0
Aged(source) ==
    [source EXCEPT !.fresh = Less(source.fresh), !.retry = Less(source.retry),
                   !.manual = Less(source.manual)]
Pass ==
    /\ cache # NoCache /\ cache' = Aged(cache)
    /\ refresh' = [t \in Refreshers |-> [refresh[t] EXCEPT !.source = Aged(refresh[t].source)]]
    /\ UNCHANGED <<settings, settingsLock, refreshLock, page, change, flaws>>

ShopNext ==
    \/ \E a \in Admins : Load(a) \/ Update(a) \/ \E deleted \in BOOLEAN : BeginChange(a, deleted)
    \/ \E t \in Refreshers :
        \/ Acquire(t) \/ Fetch(t) \/ Commit(t) \/ Abandon(t)
        \/ \E manual \in BOOLEAN : Prepare(t, manual)
    \/ FinishChange \/ Die \/ Pass

-----------------------------------------------------------------------------

CacheRecord == [rows : None..MaxRevision, fresh : 0..TTL, failed : BOOLEAN,
                retry : 0..Backoff, manual : 0..Cooldown]
SettingsRecord == [revision : 0..MaxRevision, price : None..MaxRevision, on : BOOLEAN,
                   generation : 0..MaxRevision, deleted : BOOLEAN]

\* The files are of the form the code writes, and one task holds each lock.
ShopTypeOK ==
    /\ settings \in SettingsRecord /\ cache \in CacheRecord /\ page \in [Admins -> SettingsRecord]
    /\ change \in [pc : {"idle", "save"}, deleted : BOOLEAN] /\ flaws \in 0..MaxFlaws
    /\ settingsLock \in {Unlocked, "change"} /\ refreshLock \in Refreshers \cup {Unlocked}
    /\ refresh \in [Refreshers -> [pc : {"idle", "prepare", "fetch", "commit"},
                                   generation : 0..MaxRevision, source : CacheRecord]]

\* What was deleted with a source stays away when it is added again: neither a row that
\* a refresh was reading meanwhile nor a price from a page loaded before comes back.
DeletedStaysAway ==
    \A g \in {cache.rows, settings.price} :
        g # None => ~settings.deleted /\ g = settings.generation
=============================================================================
