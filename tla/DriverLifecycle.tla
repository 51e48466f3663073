--------------------------- MODULE DriverLifecycle ---------------------------
(***************************************************************************)
(* Loading and unloading the four kernel modules, insync_keypanel.c,       *)
(* vkeypanel.c, insync_adcc.c and vadcc.c: what init, probe, remove and    *)
(* exit acquire and release, in which order, with every call that may fail *)
(* failing or not.                                                         *)
(*                                                                         *)
(* The routines are tables of steps, one for each call that acquires or    *)
(* releases something; the actions run them. Where platform_driver_probe   *)
(* or platform_driver_register calls probe, the steps of probe follow      *)
(* those of init, and the steps of remove come before those of exit.       *)
(*                                                                         *)
(* Left out: platform_get_resource and platform_get_irq, which look up     *)
(* static tables of the same file, and the test of platform_data, which    *)
(* the only device of insync_adcc.c has.                                   *)
(***************************************************************************)
EXTENDS SequencesExt

Drivers == {"insync_keypanel", "vkeypanel", "insync_adcc", "vadcc"}

VARIABLES
    driver,     \* the module that is loaded and unloaded
    todo,       \* the steps that remain of the call that is in progress
    outcome,    \* what the module will be when they are done
    held,       \* what the driver has acquired and not released
    locked,     \* user_lock
    enabled,    \* the device's interrupt enable register, which nothing clears
    wrong       \* the releases of something that was not held

vars == <<driver, todo, outcome, held, locked, enabled, wrong>>

-----------------------------------------------------------------------------

\* A step that acquires what; if it fails, the call goes on with undo, and the
\* module is then ends ("loaded" if init nevertheless returns 0).
Get(what, undo, ends) == [op |-> "get", what |-> what, undo |-> undo, ends |-> ends]

\* A step that cannot fail, and the release of what.
Do(what) == [op |-> "do", what |-> what, undo |-> <<>>, ends |-> ""]
Put(what) == [op |-> "put", what |-> what, undo |-> <<>>, ends |-> ""]

Lock == [op |-> "lock", what |-> "", undo |-> <<>>, ends |-> ""]
Unlock == [op |-> "unlock", what |-> "", undo |-> <<>>, ends |-> ""]

Puts(whats) == [i \in DOMAIN whats |-> Put(whats[i])]

\* (mutant: each goto goes to the label before its own)
GotoLabelBefore(chain, n, caller, after, what) ==
    Get(what, Puts(SubSeq(chain, Max({n - 1, 1}), Len(chain)) \o caller), after)

\* A goto into a chain of releases, from its n-th on; then what the caller of
\* probe releases. after is what the module is then.
Goto(chain, n, caller, after, what) ==
    Get(what, Puts(SubSeq(chain, n, Len(chain)) \o caller), after)

-----------------------------------------------------------------------------

\* (mutant: the error path forgets free_irq)
KeypanelChainNoFreeIrq == <<"clock", "clk", "mapping", "region", "input", "memory">>

\* insync_keypanel.c. The labels of probe: l_err_fail is 1, l_exit_free_irq 3,
\* l_exit_iounmap 4, l_exit_release_mem 5, l_exit_free_idev 6, l_exit_free_mem 7.
KeypanelChain == <<"clock", "clk", "irq", "mapping", "region", "input", "memory">>

KeypanelProbe ==
    LET fail(n, what) ==
            Goto(KeypanelChain, n, <<"driver", "device">>, "unloaded", what)
    IN  <<fail(8, "memory"), fail(7, "input"), fail(6, "region"), fail(5, "mapping"),
          fail(4, "irq"), fail(3, "clk"), Do("clock"), Do("interrupts"),
          fail(1, "registered"), Lock, Do("listed"), Unlock>>

\* (mutant: remove without user_lock)
KeypanelRemoveUnlocked ==
    Puts(<<"clock", "clk", "irq", "mapping", "region", "registered", "input", "listed", "memory">>)

KeypanelRemove ==
    <<Lock>> \o Puts(<<"clock", "clk", "irq", "mapping", "region", "registered",
                       "input", "listed", "memory">>) \o <<Unlock>>

KeypanelInit ==
    <<Get("device", <<>>, "unloaded"),
      Get("tx_file", Puts(<<"device">>), "unloaded"),
      Get("driver", Puts(<<"device">>), "unloaded")>>

KeypanelExit == Puts(<<"driver", "tx_file", "device">>)

\* vkeypanel.c. An error of platform_device_register_simple is not tested: the
\* next use of the pointer is an oops, so the call never returns.
VKeypanelProbe ==
    LET fail(n, what) ==
            Goto(<<"input", "memory">>, n, <<"driver", "device">>, "unloaded", what)
    IN  <<fail(3, "memory"), fail(2, "input"), fail(1, "registered"),
          Lock, Do("listed"), Unlock>>

VKeypanelRemove ==
    <<Lock>> \o Puts(<<"registered", "input", "listed", "memory">>) \o <<Unlock>>

VKeypanelInit ==
    <<Do("device"),
      Get("tx_file", Puts(<<"device">>), "unloaded"),
      Get("rx_file", Puts(<<"device">>), "unloaded"),
      Get("driver", Puts(<<"device">>), "unloaded")>>

VKeypanelExit == Puts(<<"driver", "tx_file", "device">>)

-----------------------------------------------------------------------------

\* insync_adcc.c. The labels of probe: err_fail is 1, err_free_irq 3,
\* err_unmap_regs 4, err_release_mem 5, err_free_dev 6, err_free_mem 7. "input
\* set" is the field of ts_dev that the handler reports to. When probe fails,
\* platform_driver_register does not.
AdccChain == <<"clock", "clk", "irq", "mapping", "region", "input", "memory">>

AdccProbe ==
    LET fail(n, what) == Goto(AdccChain, n, <<>>, "loaded", what)
    IN  <<fail(8, "memory"), fail(7, "input"), fail(6, "region"), fail(5, "mapping"),
          fail(4, "irq"), fail(3, "clk"), Do("input set"), Do("clock"),
          Do("interrupts"), fail(1, "registered")>>

\* (mutant: remove unmaps the registers first)
AdccRemoveUnmapsFirst ==
    Puts(<<"mapping", "region", "clock", "clk", "irq", "registered", "input", "memory">>)

AdccRemove ==
    Puts(<<"clock", "clk", "irq", "mapping", "region", "registered", "input", "memory">>)

\* The result of platform_device_register is ignored; without a device there is
\* no probe.
AdccInit ==
    LET register == Get("driver", Puts(<<"device">>), "unloaded")
    IN  <<Get("device", <<register>>, "loaded"), register>>

AdccExit == Puts(<<"driver", "device">>)

\* vadcc.c, which has no probe. Init goes on without a device number; it returns
\* 0, as PTR_ERR( NULL ), when there is no input device.
VadccCleanup == Puts(<<"registered", "input", "chrdev", "tx_file", "device">>)

VadccInit ==
    LET rest == <<Get("input", Puts(<<"chrdev", "tx_file", "device">>), "loaded"),
                  Get("registered", VadccCleanup, "unloaded")>>
    IN  <<Get("device", <<>>, "unloaded"),
          Get("tx_file", Puts(<<"device">>), "unloaded"),
          Get("chrdev", rest, "loaded")>> \o rest

-----------------------------------------------------------------------------

LoadSteps ==
    [insync_keypanel |-> KeypanelInit \o KeypanelProbe,
     vkeypanel       |-> VKeypanelInit \o VKeypanelProbe,
     insync_adcc     |-> AdccInit \o AdccProbe,
     vadcc           |-> VadccInit]

\* remove is called for a device that probe accepted: the one that has memory.
RemoveSteps ==
    [insync_keypanel |-> KeypanelRemove,
     vkeypanel       |-> VKeypanelRemove,
     insync_adcc     |-> AdccRemove,
     vadcc           |-> <<>>]

ExitSteps ==
    [insync_keypanel |-> KeypanelExit,
     vkeypanel       |-> VKeypanelExit,
     insync_adcc     |-> AdccExit,
     vadcc           |-> VadccCleanup]

Bound == "memory" \in held

Idle == todo = <<>>

Init ==
    /\ driver \in Drivers
    /\ todo = <<>>
    /\ outcome = "unloaded"
    /\ held = {}
    /\ locked = FALSE
    /\ enabled = FALSE
    /\ wrong = {}

Load ==
    /\ Idle /\ outcome = "unloaded"
    /\ todo' = LoadSteps[driver]
    /\ outcome' = "loaded"
    /\ UNCHANGED <<driver, held, locked, enabled, wrong>>

Unload ==
    /\ Idle /\ outcome = "loaded"
    /\ todo' = (IF Bound THEN RemoveSteps[driver] ELSE <<>>) \o ExitSteps[driver]
    /\ outcome' = "unloaded"
    /\ UNCHANGED <<driver, held, locked, enabled, wrong>>

Acquire ==
    /\ ~Idle /\ Head(todo).op \in {"get", "do"} /\ Head(todo).what # "interrupts"
    /\ held' = held \cup {Head(todo).what}
    /\ todo' = Tail(todo)
    /\ UNCHANGED <<driver, outcome, locked, enabled, wrong>>

\* The write of the interrupt enable register.
EnableInterrupts ==
    /\ ~Idle /\ Head(todo).what = "interrupts"
    /\ enabled' = TRUE
    /\ todo' = Tail(todo)
    /\ UNCHANGED <<driver, outcome, held, locked, wrong>>

AcquireFails ==
    /\ ~Idle /\ Head(todo).op = "get"
    /\ todo' = Head(todo).undo
    /\ outcome' = Head(todo).ends
    /\ UNCHANGED <<driver, held, locked, enabled, wrong>>

\* Unregistering an input device gives up the driver's reference to it, and
\* unregistering a platform device removes the files in its directory.
Released(what) ==
    CASE what = "registered" -> {"registered", "input"}
      [] what = "device"     -> {"device", "tx_file", "rx_file"}
      [] what = "memory"     -> {"memory", "input set"}
      [] OTHER               -> {what}

Release ==
    /\ ~Idle /\ Head(todo).op = "put"
    /\ held' = held \ Released(Head(todo).what)
    /\ wrong' = IF Head(todo).what \in held THEN wrong ELSE wrong \cup {Head(todo).what}
    /\ todo' = Tail(todo)
    /\ UNCHANGED <<driver, outcome, locked, enabled>>

TakeLock ==
    /\ ~Idle /\ Head(todo).op = "lock"
    /\ ~locked
    /\ locked' = TRUE
    /\ todo' = Tail(todo)
    /\ UNCHANGED <<driver, outcome, held, enabled, wrong>>

GiveLock ==
    /\ ~Idle /\ Head(todo).op = "unlock"
    /\ locked' = FALSE
    /\ todo' = Tail(todo)
    /\ UNCHANGED <<driver, outcome, held, enabled, wrong>>

Next ==
    \/ Load \/ Unload
    \/ Acquire \/ AcquireFails \/ EnableInterrupts \/ Release
    \/ TakeLock \/ GiveLock

Spec == Init /\ [][Next]_vars

-----------------------------------------------------------------------------

\* Whichever calls of init and probe fail, and however often the module is
\* loaded: when a call has returned, user_lock is free, a module that is not
\* loaded holds nothing (so that the next load finds the memory region, the
\* interrupt and the names free), and a device is bound with all its driver
\* needs or not at all (no failure in probe is taken for a success).
Needed == {s.what : s \in {t \in ToSet(LoadSteps[driver]) : t.op \in {"get", "do"}}}

AllOrNothing ==
    Idle =>
        /\ ~locked
        /\ outcome = "unloaded" => held = {}
        /\ Bound => held = Needed \ {"interrupts"}

\* In any state in which the device can raise an interrupt (its clock runs, its
\* interrupts were once enabled) and the handler is registered, the handler
\* finds its data, the mapped registers and the input device: in the middle of
\* probe, of its error path, of remove, and of the probe of the next load.
HandlerSafe ==
    {"irq", "clock"} \subseteq held /\ enabled =>
        /\ {"memory", "mapping", "input"} \subseteq held
        /\ driver = "insync_adcc" => "input set" \in held

\* A task that finds the device on ssc_list under user_lock finds it whole:
\* mapped, clocked ("device clocked from init to remove", insync_keypanel.c:94)
\* and registered, so that in_ssc_request never hands out half a device.
ListedIsWhole ==
    ~locked /\ "listed" \in held =>
        /\ {"memory", "registered"} \subseteq held
        /\ driver = "insync_keypanel" => {"mapping", "clock", "irq"} \subseteq held

\* Nothing is released that is not held, in any order of failures, but for what
\* the code does wrong: every driver frees its input device after it has
\* unregistered it, and insync_adcc.c unregisters a device that it could not
\* register. vadcc.c, whose cleanup releases everything after any failure, is
\* left out.
ReleasesOwned ==
    CASE driver = "insync_adcc" -> wrong \subseteq {"input", "device"}
      [] driver = "vadcc"       -> TRUE
      [] OTHER                  -> wrong \subseteq {"input"}

=============================================================================
