-------------------------------- MODULE Browser -------------------------------
(***************************************************************************)
(* BrowserTool of crates/electro-tools/src/browser.rs: tool calls that     *)
(* share one browser, its launch, its loss, its closing by a call or by    *)
(* the idle watchdog, and the drop of the tool.  A launch is a number.     *)
(* The locks of the browser and of the page are always taken in that order *)
(* and given back together; the capture of sessions takes the page's only. *)
(***************************************************************************)
EXTENDS Naturals, FiniteSets

CONSTANTS
  BrowserCalls,
  MaxLaunches,   \* bound: launches
  NoCall

ASSUME BrowserAssumption == NoCall \notin BrowserCalls /\ MaxLaunches \in Nat

VARIABLES
  slot,      \* browser: the launch in the slot, 0 for None
  shown,     \* page: the launch its page is of, 0 for None
  pid,       \* chrome_pid
  launches,  \* launches so far
  chromes,     \* the launches whose Chrome answers
  children,  \* the launches whose renderer and GPU processes may run
  locker,    \* the call that holds both locks across its awaits
  pageLock,  \* the call that captures sessions under the page's lock
  callStep,  \* per call: where it is
  lastUsed,  \* "never" (0), "recent" or "old" (past the idle timeout)
  watchdog,  \* "asleep", "closing" (it found the browser idle) or "off"
  failed     \* the launches given up after Chrome had started (history)

browserVars == <<slot, shown, pid, launches, chromes, children, locker, pageLock, callStep,
                 lastUsed, watchdog, failed>>

BrowserInit ==
  /\ slot = 0 /\ shown = 0 /\ pid = 0 /\ launches = 0 /\ chromes = {} /\ children = {}
  /\ locker = NoCall /\ pageLock = NoCall /\ callStep = [c \in BrowserCalls |-> "idle"]
  /\ lastUsed = "never" /\ watchdog = "asleep" /\ failed = {}

TabAt(c, step) == callStep[c] = step
TabTo(c, step) == callStep' = [callStep EXCEPT ![c] = step]
LocksFree == locker = NoCall /\ pageLock = NoCall

\* The browser is dropped, which kills Chrome, and its children with the pid.
DropBrowser ==
  /\ slot' = 0 /\ shown' = 0 /\ pid' = 0
  /\ chromes' = chromes \ {slot} /\ children' = children \ {pid}

\* A call other than close; ensure_browser probes the page it finds.
FindsPage(c) ==
  /\ TabAt(c, "idle") /\ watchdog # "off" /\ LocksFree /\ shown # 0 /\ shown \in chromes
  /\ TabTo(c, "got")
  /\ UNCHANGED <<slot, shown, pid, launches, chromes, children, locker, pageLock, lastUsed,
                 watchdog, failed>>
FindsNothing(c) ==
  /\ TabAt(c, "idle") /\ watchdog # "off" /\ LocksFree /\ shown = 0
  /\ TabTo(c, "launch") /\ locker' = c
  /\ UNCHANGED <<slot, shown, pid, launches, chromes, children, pageLock, lastUsed, watchdog,
                 failed>>
\* Mutant: the browser whose page is gone stays in the slot.
PageForgotten(c) ==
  /\ TabAt(c, "idle") /\ watchdog # "off" /\ LocksFree /\ shown # 0
  /\ shown' = 0 /\ TabTo(c, "launch") /\ locker' = c
  /\ UNCHANGED <<slot, pid, launches, chromes, children, pageLock, lastUsed, watchdog, failed>>

\* The probe fails, for a Chrome that is gone or one that does not answer.
PageGone(c) ==
  /\ TabAt(c, "idle") /\ watchdog # "off" /\ LocksFree /\ shown # 0
  /\ DropBrowser /\ TabTo(c, "launch") /\ locker' = c
  /\ UNCHANGED <<launches, pageLock, lastUsed, watchdog, failed>>

\* connect_or_launch_browser: a local Chrome has a pid, a remote one has none.
Launch(c) ==
  /\ TabAt(c, "launch") /\ launches < MaxLaunches
  /\ launches' = launches + 1 /\ chromes' = chromes \cup {launches + 1}
  /\ \/ pid' = launches + 1 /\ children' = children \cup {launches + 1}
     \/ UNCHANGED <<pid, children>>
  /\ TabTo(c, "prepare")
  /\ UNCHANGED <<slot, shown, locker, pageLock, lastUsed, watchdog, failed>>
LaunchFails(c) ==
  /\ TabAt(c, "launch") /\ TabTo(c, "idle") /\ locker' = NoCall
  /\ UNCHANGED <<slot, shown, pid, launches, chromes, children, pageLock, lastUsed, watchdog,
                 failed>>

\* new_page or the stealth script fails, or the call is dropped meanwhile: the
\* browser goes with it, and chrome_pid stays as it is.
PrepareFails(c) ==
  /\ TabAt(c, "prepare") /\ TabTo(c, "idle") /\ locker' = NoCall
  /\ chromes' = chromes \ {launches} /\ failed' = failed \cup {launches}
  /\ UNCHANGED <<slot, shown, pid, launches, children, pageLock, lastUsed, watchdog>>

\* Mutant: the launch leaves last_used to the call.
BrowserReadyUntimed(c) ==
  /\ TabAt(c, "prepare") /\ TabTo(c, "got") /\ locker' = NoCall
  /\ slot' = launches /\ shown' = launches
  /\ UNCHANGED <<pid, launches, chromes, children, pageLock, lastUsed, watchdog, failed>>

\* The browser and its page go into their slots.
BrowserReady(c) ==
  /\ TabAt(c, "prepare") /\ TabTo(c, "got") /\ locker' = NoCall
  /\ slot' = launches /\ shown' = launches /\ lastUsed' = "recent"
  /\ UNCHANGED <<pid, launches, chromes, children, pageLock, watchdog, failed>>

\* execute notes the use, works on its copy of the page, and returns.
NoteUse(c) ==
  /\ TabAt(c, "got") /\ TabTo(c, "use") /\ lastUsed' = "recent"
  /\ UNCHANGED <<slot, shown, pid, launches, chromes, children, locker, pageLock, watchdog, failed>>
Return(c) ==
  /\ TabAt(c, "use") /\ TabTo(c, "idle")
  /\ UNCHANGED <<slot, shown, pid, launches, chromes, children, locker, pageLock, lastUsed,
                 watchdog, failed>>

\* "close": the sessions are captured first, and the locks taken again.
Capture(c) ==
  /\ TabAt(c, "idle") /\ watchdog # "off" /\ LocksFree
  /\ TabTo(c, "capture") /\ pageLock' = c
  /\ UNCHANGED <<slot, shown, pid, launches, chromes, children, locker, lastUsed, watchdog, failed>>
Captured(c) ==
  /\ TabAt(c, "capture") /\ TabTo(c, "close") /\ pageLock' = NoCall
  /\ UNCHANGED <<slot, shown, pid, launches, chromes, children, locker, lastUsed, watchdog, failed>>

\* Mutant: the browser is closed and the pid forgotten without the killing.
CloseForgetsPid(c) ==
  /\ TabAt(c, "close") /\ LocksFree /\ TabTo(c, "idle")
  /\ slot' = 0 /\ shown' = 0 /\ pid' = 0 /\ chromes' = chromes \ {slot} /\ lastUsed' = "never"
  /\ UNCHANGED <<launches, children, locker, pageLock, watchdog, failed>>

\* close_browser.
CloseBrowser(c) ==
  /\ TabAt(c, "close") /\ LocksFree /\ TabTo(c, "idle")
  /\ IF slot # 0
     THEN DropBrowser /\ lastUsed' = "never"
     ELSE UNCHANGED <<slot, shown, pid, chromes, children, lastUsed>>
  /\ UNCHANGED <<launches, locker, pageLock, watchdog, failed>>

\* The watchdog reads last_used, and takes the locks without reading it again.
FindIdle ==
  /\ watchdog = "asleep" /\ lastUsed = "old" /\ watchdog' = "closing"
  /\ UNCHANGED <<slot, shown, pid, launches, chromes, children, locker, pageLock, callStep,
                 lastUsed, failed>>
IdleClose ==
  /\ watchdog = "closing" /\ LocksFree /\ watchdog' = "asleep"
  /\ IF slot # 0
     THEN DropBrowser /\ lastUsed' = "never"
     ELSE UNCHANGED <<slot, shown, pid, chromes, children, lastUsed>>
  /\ UNCHANGED <<launches, locker, pageLock, callStep, failed>>

\* Drop: the last owner of the tool lets it go, and no call runs any more.
DropTool ==
  /\ watchdog # "off" /\ \A c \in BrowserCalls : TabAt(c, "idle")
  /\ watchdog' = "off" /\ DropBrowser
  /\ UNCHANGED <<launches, locker, pageLock, callStep, lastUsed, failed>>

ChromeDies ==
  /\ \E n \in chromes : chromes' = chromes \ {n}
  /\ UNCHANGED <<slot, shown, pid, launches, children, locker, pageLock, callStep, lastUsed,
                 watchdog, failed>>
TimePasses ==
  /\ lastUsed = "recent" /\ lastUsed' = "old"
  /\ UNCHANGED <<slot, shown, pid, launches, chromes, children, locker, pageLock, callStep,
                 watchdog, failed>>

BrowserNext ==
  \/ \E c \in BrowserCalls :
       \/ FindsPage(c) \/ FindsNothing(c) \/ PageGone(c) \/ Launch(c) \/ LaunchFails(c)
       \/ PrepareFails(c) \/ BrowserReady(c) \/ NoteUse(c) \/ Return(c)
       \/ Capture(c) \/ Captured(c) \/ CloseBrowser(c)
  \/ FindIdle \/ IdleClose \/ DropTool \/ ChromeDies \/ TimePasses

BrowserSpec == BrowserInit /\ [][BrowserNext]_browserVars

-----------------------------------------------------------------------------
\* Every variable keeps its type.
BrowserTypeOK ==
  /\ {slot, shown, pid, launches} \subseteq 0 .. MaxLaunches
  /\ chromes \cup children \cup failed \subseteq 1 .. MaxLaunches
  /\ {locker, pageLock} \subseteq BrowserCalls \cup {NoCall}
  /\ callStep \in [BrowserCalls -> {"idle", "launch", "prepare", "got", "use", "capture",
                                    "close"}]
  /\ lastUsed \in {"never", "recent", "old"} /\ watchdog \in {"asleep", "closing", "off"}

\* Whoever calls, closes, fails or idles: at most one Chrome runs, the one in
\* the slot or the one a call prepares under the locks, so none is out of
\* reach of the next close.
NoStrayChrome ==
  chromes \subseteq {slot} \cup {launches : c \in {k \in BrowserCalls : TabAt(k, "prepare")}}

\* The page that calls are given is of the browser in the slot.
PageOfSlot == shown = slot

\* The children of every Chrome are killed, or can still be by the pid that
\* is kept, unless its launch was given up half-way.
ChildrenKnown == children \subseteq {pid} \cup failed

\* A browser in the slot is always on the clock of the watchdog.
OnTheClock == slot # 0 => lastUsed # "never"

\* The four together: what the tool's shared slots owe to concurrent calls.
BrowserSound == NoStrayChrome /\ PageOfSlot /\ ChildrenKnown /\ OnTheClock

-----------------------------------------------------------------------------
(***************************************************************************)
(* BrowserPool of crates/electro-tools/src/browser_pool.rs: workers claim  *)
(* the slots of a pool of browser contexts by compare-and-exchange on a    *)
(* bitset, use the page of their slot and release it, which replaces its   *)
(* context.  The atomic operations and the calls of the browser are steps. *)
(***************************************************************************)

CONSTANTS
  PoolWorkers,   \* tasks that use the pool
  PoolSize       \* max_size

ASSUME PoolAssumption == PoolSize \in Nat \ {0}

VARIABLES
  available,    \* the bitset, as the set of its slots
  browsing,     \* per worker: how far it is
  loaded,       \* per worker: the bitset it loaded last
  slotOf,       \* per worker: the slot it uses, 0 if none
  pageOn,       \* slots with a page
  visitedBy,    \* per slot: workers whose pages its context remembers
  lostSlots     \* slots whose release failed, or whose worker was dropped

poolVars == <<available, browsing, loaded, slotOf, pageOn, visitedBy, lostSlots>>

PoolSlots == 1 .. PoolSize
Lowest(S) == CHOOSE s \in S : \A t \in S : s <= t
Browsing(w, place) == browsing[w] = place
BrowseTo(w, place) == browsing' = [browsing EXCEPT ![w] = place]

PoolInit ==
  /\ available = PoolSlots
  /\ browsing = [w \in PoolWorkers |-> "idle"]
  /\ loaded = [w \in PoolWorkers |-> {}] /\ slotOf = [w \in PoolWorkers |-> 0]
  /\ pageOn = {} /\ visitedBy = [s \in PoolSlots |-> {}] /\ lostSlots = {}

\* try_acquire: load; with nothing available the answer is None.
LoadBitset(w) ==
  /\ Browsing(w, "idle") /\ available # {}
  /\ loaded' = [loaded EXCEPT ![w] = available] /\ BrowseTo(w, "exchange")
  /\ UNCHANGED <<available, slotOf, pageOn, visitedBy, lostSlots>>

\* Mutant: the bits are stored without a comparison.
ExchangeBlindly(w) ==
  /\ Browsing(w, "exchange")
  /\ available' = loaded[w] \ {Lowest(loaded[w])}
  /\ slotOf' = [slotOf EXCEPT ![w] = Lowest(loaded[w])] /\ BrowseTo(w, "using")
  /\ UNCHANGED <<loaded, pageOn, visitedBy, lostSlots>>

\* compare_exchange: the lowest slot of the loaded bitset, or another round.
Exchange(w) ==
  /\ Browsing(w, "exchange")
  /\ IF available = loaded[w]
     THEN /\ available' = available \ {Lowest(available)}
          /\ slotOf' = [slotOf EXCEPT ![w] = Lowest(available)] /\ BrowseTo(w, "using")
     ELSE BrowseTo(w, "idle") /\ UNCHANGED <<available, slotOf>>
  /\ UNCHANGED <<loaded, pageOn, visitedBy, lostSlots>>

\* get_page: the cached page or a new one; the worker browses with it.
UsePage(w) ==
  /\ Browsing(w, "using")
  /\ pageOn' = pageOn \cup {slotOf[w]}
  /\ visitedBy' = [visitedBy EXCEPT ![slotOf[w]] = @ \cup {w}]
  /\ UNCHANGED <<available, browsing, loaded, slotOf, lostSlots>>

\* release: the page is closed, then the context disposed of.
ClosePage(w) ==
  /\ Browsing(w, "using") /\ BrowseTo(w, "dispose")
  /\ pageOn' = pageOn \ {slotOf[w]}
  /\ UNCHANGED <<available, loaded, slotOf, visitedBy, lostSlots>>

\* Mutant: the slot keeps the old context when no new one can be made.
ReplaceOrKeep(w) ==
  /\ Browsing(w, "dispose") /\ BrowseTo(w, "giveBack")
  /\ \/ visitedBy' = [visitedBy EXCEPT ![slotOf[w]] = {}]
     \/ UNCHANGED visitedBy
  /\ UNCHANGED <<available, loaded, slotOf, pageOn, lostSlots>>

\* A fresh context; when that fails release returns the error and the slot is
\* never marked available.
ReplaceContext(w) ==
  /\ Browsing(w, "dispose")
  /\ \/ /\ visitedBy' = [visitedBy EXCEPT ![slotOf[w]] = {}] /\ BrowseTo(w, "giveBack")
        /\ UNCHANGED <<slotOf, lostSlots>>
     \/ /\ lostSlots' = lostSlots \cup {slotOf[w]} /\ BrowseTo(w, "idle")
        /\ slotOf' = [slotOf EXCEPT ![w] = 0] /\ UNCHANGED visitedBy
  /\ UNCHANGED <<available, loaded, pageOn>>
ReturnSlot(w) ==
  /\ Browsing(w, "giveBack") /\ BrowseTo(w, "idle")
  /\ available' = available \cup {slotOf[w]}
  /\ slotOf' = [slotOf EXCEPT ![w] = 0]
  /\ UNCHANGED <<loaded, pageOn, visitedBy, lostSlots>>

\* The worker is dropped at an await: nothing gives its slot back.
DropWorker(w) ==
  /\ browsing[w] \in {"using", "dispose"} /\ BrowseTo(w, "idle")
  /\ lostSlots' = lostSlots \cup {slotOf[w]}
  /\ slotOf' = [slotOf EXCEPT ![w] = 0]
  /\ UNCHANGED <<available, loaded, pageOn, visitedBy>>

PoolNext == \E w \in PoolWorkers :
  \/ LoadBitset(w) \/ Exchange(w) \/ UsePage(w) \/ ClosePage(w)
  \/ ReplaceContext(w) \/ ReturnSlot(w) \/ DropWorker(w)

PoolSpec == PoolInit /\ [][PoolNext]_poolVars

-----------------------------------------------------------------------------
\* Every variable keeps its type.
PoolTypeOK ==
  /\ available \subseteq PoolSlots /\ lostSlots \subseteq PoolSlots /\ pageOn \subseteq PoolSlots
  /\ browsing \in [PoolWorkers -> {"idle", "exchange", "using", "dispose", "giveBack"}]
  /\ loaded \in [PoolWorkers -> SUBSET PoolSlots]
  /\ slotOf \in [PoolWorkers -> {0} \cup PoolSlots]
  /\ visitedBy \in [PoolSlots -> SUBSET PoolWorkers]

\* A slot belongs to one worker at a time, however loads, exchanges, releases and
\* dropped workers overlap.
PoolExclusive == \A v, w \in PoolWorkers : slotOf[v] # 0 /\ slotOf[v] = slotOf[w] => v = w

\* "Guarantee clean state": the context a worker uses remembers nobody else's pages.
PoolClean == \A w \in PoolWorkers : slotOf[w] # 0 => visitedBy[slotOf[w]] \subseteq {w}

\* Both: a worker has its slot for itself, as if the browser were new.
PoolSound == PoolExclusive /\ PoolClean
=============================================================================
