# TLA+ models of the cml hotplug coordinator and ssl_util

This directory holds TLA+ models of two parts of cml:
- `src/daemon/hotplug.c`: the part of cmld that watches kernel uevents, grants compartments
  (containers) access to mapped USB devices, and moves physical network interfaces into
  compartments' network namespaces.
- `src/unnamed/part_002` (`ssl_util.c`): the OpenSSL/TPM helpers, modelled for the ownership of
  every object on every error path.
 Every module is written from
the C source, with one exception: the compartment state machine. Its code (`container.c`) is not
in the sources, so it is modelled from `spec.md` section 3.

## The system

### Sources

| Source | What it is | Modelled |
|---|---|---|
| `src/daemon/hotplug.c` | The hotplug coordinator. | yes: every operation (the devpath rewrite in its own module) |
| `src/unnamed/part_002` | `ssl_util.c`: OpenSSL/TPM engine setup, keys, certificates, wrapping, hashing. | partly: every function that allocates, and the AES-ECB buffer bounds |
| `src/common/sock.h` | Socket helper declarations. | no: declarations only |
| `src/unnamed/part_000`, `part_001`, `part_003`, `src/Jenkinsfile` | Makefiles, a Dockerfile, CI. | no: no runtime behaviour |

### Parts of the hotplug coordinator and how they interact

They all run on cmld's single-threaded event loop. Callbacks run to completion, one at a time.

- **USB mapping table** (`hotplug_container_dev_mapping_list`). Entries are
  (container, vendor/product/serial, type generic|token, major:minor).
  - `hotplug_register_usbdevice` appends a copy of the caller's usbdev, without looking at the
    list. The caller may first fill in major:minor with `hotplug_usbdev_set_sysfs_props`. That
    function walks `/sys/bus/usb/devices` and keeps the last entry whose vendor/product match and
    whose serial either is missing or *starts with* the usbdev's serial (`strncmp`).
  - `hotplug_unregister_usbdevice` removes the *last* matching entry.
- **USB uevent handler** (`hotplug_handle_usb_device`).
  - *remove*: for every entry whose recorded major:minor equals the event's, a token is detached
    and a generic device is denied.
  - *add*: if the sysfs serial is readable and not empty, every entry with exactly that serial records the event's
    major:minor and gets a device-cgroup allow. A token entry also gets a 100 ms repeating timer.
- **Token timer** (`hotplug_token_timer_cb`).
  - It keeps its budget in `static int retries = 10`, which is shared by all timers.
  - Each call gives up once the counter is below 0, or waits for `/dev/<name>`, or attaches the
    token to the container.
- **Net mapping table** (`hotplug_container_netdev_mapping_list`). Entries are (container, MAC).
  - Register appends.
  - Unregister removes the last match.
- **Start-up renaming** (`hotplug_init`). Every name on cmld's physical interface list is renamed
  to `cml{eth|wlan}<n>` using two static counters. Then the uevent handler is registered.
- **Net uevent handler** (`hotplug_handle_uevent_cb`). For an *add* of a non-virtual net device,
  it puts the name on cmld's list and starts a 100 ms repeating timer on a copy of the event.
- **Net timer** (`hotplug_sysfs_netif_timer_cb` and `hotplug_netdev_move`).
  1. A wlan event waits until sysfs shows its interface as wireless.
  2. The MAC is then looked up by interface name. The target is the first mapping's container,
     or c0 if none matches.
  3. The target must be STARTING, BOOTING or RUNNING.
  4. The interface is renamed: the index is consumed and cmld's list edited. It is then moved.
  5. The timer is removed whatever happened.

### Hard behaviours

- Uevents are handled later than the kernel acts.
- The kernel reuses major:minor numbers and interface names after an unplug.
- Timers hold copies of events and outlive the device the events were about.
- A retry counter is shared between timers.
- Rename and move can fail in the kernel.
- Compartments change state between the event and the timer.

## Modules

### `HotplugUsb.tla`: the USB path

- **State:**
  - `devMapList`: the mapping list.
  - `allowed`: device-cgroup allows, as (container, dev) pairs.
  - `attached`: containers with a token attached.
  - `tokenTimers`: a bag of pending timers.
  - `retries`: the static counter.
- **Kernel side (environment):**
  - `present`: which serial is plugged at which node.
  - `devnode`: which `/dev` nodes exist.
  - `uevq`: uevents not yet handled, in order.
- **Actions:**
  - `HandleUsbUevent`: `UsbAdd` or `UsbRemove` on the head of `uevq`.
  - `TokenTimerFire`: `RetriesDec`, then one of `TokenTimerGiveUp`, `TokenTimerWait` or
    `TokenTimerAttach`.
  - `RegisterUsbDevice`, `UnregisterUsbDevice`.
  - Kernel actions: `Plug`, `Unplug`, `CreateDevnode`.
- **Abstractions:**
  - Devices are the model values `Idents`. The constants `VidPid` and `Serial` give each device
    its vendor/product and its serial. A serial is a sequence of characters, and `<<>>` means no
    serial file.
  - `SysfsMatch` is the callback's test. `SysfsPropsDev` is the set of results that
    `set_sysfs_props` can give, because any accepted entry may come last in directory order.
  - Major:minor pairs are the model values `DevNums`.
  - `assign` is dropped because the device cgroup is modelled as a set of allows.
  - `retries` is kept exactly down to -1; below that only its sign matters.
  - A timer's `ident` and `fired` fields are history for the properties.
  - `TokenRetries` is 10 in the code and smaller in the runs.

### `HotplugNet.tla`: the net path

It composes `Compartment.tla` through `C == INSTANCE Compartment`.

- **State:**
  - `netMapList`.
  - `physList`: cmld's list of names, as a set.
  - `ethIdx`, `wlanIdx`.
  - `initPending`: the rest of `hotplug_init`'s loop.
  - `uevUev`: the uevent handler. It is "none" before `hotplug_init`, "added", and "removed"
    after `hotplug_cleanup`.
  - `netTimers`: a bag of event copies `[name, devtype, virtual, iface]`. `iface` is history:
    the code only knows the name. `devtype` is none, `wlan` or `wwan` (`DevTypes`); the rename
    takes its infix from it (`Infixes`).
- **Kernel side:**
  - `ifs`: the name and namespace of each interface.
  - `wifiReady`.
  - `uevq`.
- **Actions:**
  - `HotplugInitRename`, `HotplugInitRegister`, `HandleNetUevent`.
  - `HotplugCleanup`: cmld's shutdown. It is enabled by the constant `Shutdown`. The handler
    goes, so no more uevents are handled, but pending net timers keep firing.
  - `CmldRestart`: cmld exits and starts again, at most `MaxRestarts` times. The process state
    goes: the mapping list, the handler with its queued uevents, the timers, and the static
    counters of `hotplug_rename_ifi_new`, which start at 0 again. The kernel keeps the
    interfaces and their names. The containers, cmld's children, have stopped first. The new
    cmld's list holds the host's interface names in any order, and `hotplug_init` runs again.
  - `NetTimerFire`: the guard `~SysfsNotReady`, then `NetdevMoveNoIface`, `NetdevMoveNotLive` or
    `NetdevMoveLive`. The last of these does `RenameAndMove`.
  - `RegisterNetdev`, `UnregisterNetdev`, for the MACs in `MappedMacs`: the MACs the
    containers' configurations name.
  - Kernel actions: `NetPlug`, `VirtualPlug`, `NetUnplug`, `WifiSysfsReady`.
  - Compartment actions: `ContainerStart`, `ContainerStep`, `ContainerStopped`. When a
    compartment stops, its interfaces return to the host. If their name is taken there, they get
    a fresh kernel name.
- **Outcomes:**
  - A rename fails if the name is taken in the host.
  - A move fails if the name is taken in the target namespace.
  - With `KernelFaults`, either can also fail for any reason.
- **Not modelled here:**
  - The uevent rewriting and the injection into the namespace. They change no state the
    coordinator reads again. The devpath rewrite is modelled on its own, in `DevpathRewrite.tla`.

### `DevpathRewrite.tla`: the devpath of the renamed uevent

`hotplug_rename_interface` rewrites the copy of the event that is injected into the container.
`ReplaceDevpathNew` translates `hotplug_replace_devpath_new`: `strstr` finds the first
occurrence of the old name, and the function splices in the new name there. It is written with
`SubSeqs` and `ReplaceFirstSubSeq` of SequencesExt.

- Strings are sequences of one-character strings.
- A devpath is a parent path, then `/`, then the interface name.
- One step rewrites one devpath.
- `DevpathNamesInterface` is the reference: only the last component changes.
- `MC_DevpathRewrite` uses the devpath of a PCI card and of a USB adapter on bus 1, and the
  kernel names `eth0`, `usb0` and `usb1`, abbreviated.

### `NameAllocator.tla`: the naming promise, and its refinement

Spec section 4.4 (rule 3(b)) and property 4 promise that every renamed interface gets a
host-scope name `cml{eth|wlan}<n>`, with `n` strictly monotonic per family.
`NameAllocator` states that promise abstractly.

- **State:** `next[f]`, the next index of family `f`, and `held`, the cml names interfaces
  carry.
- **`Allocate(f)`:** hands out `next[f]` and moves the index on. The name is either taken, or
  lost when the rename fails.
- **`Release`:** drops names, when an interface disappears or comes back from a container under
  a kernel name.

`HotplugNet` instantiates it as `NA`, with a refinement mapping: `next` is the two static
counters of `hotplug_rename_ifi_new`, and `held` is the set of cml names the interfaces carry.
`NameAllocation == NA!Spec` is a property of the `net_live` run, which has no restart. It fails if a rename takes
any index other than the family's current one, or if a counter moves without a rename. It also
fails if a cml name appears outside a rename, or if two renames share a counter. The promise
holds within one run of cmld: a restart sets the counters back to 0, which the allocator never
does, and `net_naming` shows what that costs. It also holds only for interfaces of DEVTYPE none
or `wlan`, the instance `net_live` checks: a `wwan` modem gets a `cmlwwan` name, outside the
allocator's two families, from the eth counter (`net_naming`, defect (c)).

### `Compartment.tla`

Models the states `STOPPED`, `STARTING`, `BOOTING`, `RUNNING` and `SHUTTING_DOWN`, and the
transitions between them, from spec section 3. `Live` is the set that `hotplug_netdev_move`
accepts. The other spec states behave like STOPPED for the coordinator.

### `SslCleanup.tla` and `SslPrograms.tla`: ssl_util error paths

Every function of ssl_util is straight-line C with `goto` to a cleanup label, so
`SslCleanup` is a small interpreter and `SslPrograms` writes each function as a program for it.
Each instruction carries a comment with its label (its index) and the C line it stands for.

- **Instructions:** `Alloc` (`X_new`, `fopen`, `d2i_*`, `ENGINE_by_id`: an object or NULL),
  `Mem` (`mem_alloc*`: never NULL, an assumption about cml's allocator, which is not in the
  sources), `Acquire` (a call that takes a reference, such as `ENGINE_init` or
  `PEM_read_bio_X509` into `&p`), `IfNull`, `Call` (a library call that may fail and jump),
  `Branch` (a condition on the inputs: either way), `Set` (`ret = v`), `Free` (`X_free`: nothing
  for NULL), `Free0` (`mem_free0`: frees and nulls), `Close` (`fclose`: a NULL stream is a fault), `Deref` (the object is passed to a callee
  that dereferences or `ASSERT`s it), `Give` (`*out = p`), `Adopt` (`sk_X509_push(s, p); p =
  NULL`, or `EVP_PKEY_assign_RSA`: another object owns it now), `Goto`, `Return`.
- **State:** the program counter, per object the references the function holds (`cnt`) and
  whether its pointer is non-NULL (`ptr`), the objects handed out (`given`), the result variable,
  whether an error branch was taken, and the memory faults committed.
- **Reference counts:** the ENGINE is the only object with two: `ENGINE_by_id` gives a
  structural reference and `ENGINE_init` a second one; `ENGINE_free` and `ENGINE_finish` each drop
  one. Dropping a reference when none is held, with the pointer still set, is a double free.
- **Functions:** `ssl_init`, `ssl_read_pkcs12_token`, `ssl_create_csr`, `ssl_wrap_key`,
  `ssl_unwrap_key`, `ssl_wrap_key_sym`, `ssl_unwrap_key_sym`, `ssl_verify_certificate`,
  `ssl_verify_signature_from_digest`, `ssl_hash_buf`, `ssl_hash_file`,
  `ssl_create_pkcs12_token`, `ssl_newpass_pkcs12_token`, `ssl_mkreq`, `add_ext_req`,
  `ssl_mkkeypair`, `ssl_mkcert`, `ssl_add_ext_cert`, `ssl_self_sign_csr`,
  `ssl_verify_signature_from_buf`, `ssl_verify_signature` and `ssl_aes_ctr_init_encrypt/decrypt`.
  The cryptography, the data and the logging are left out:
  only which calls can fail, and where they jump, matter to the properties.
- **Properties:** `NoMemoryFault` (no double free, use after free or `fclose(NULL)`), `NoLeak` (on return every
  held object was handed out), `MemorySafe` (both), `FailClosed` (0 is returned only on a path without an error
  branch) and `GivesOnlyOnSuccess` (nothing is handed out on a failing return).
- The variants after which a definition is named (`SslWrapKeyGiveEarly`, ...) are the mutants of
  `PROJECT.json`: the same function with one plausible slip.

### `SslBuffers.tla`: buffer bounds of AES-ECB and key unwrapping

`ssl_aes_ecb_encrypt` and `ssl_aes_ecb_decrypt` check the caller's `*outlen` against a bound
computed from `inlen`, and then let `EVP_EncryptUpdate`/`_Final_ex` write into the buffer.
`ssl_unwrap_key` reads `tmpkeylen` and `keylen` as signed ints from the wrapped key. It checks
their sum, computed in `size_t`, against the key's length. It then hands the encrypted session
key to `EVP_OpenInit` and the ciphertext to `EVP_OpenUpdate`/`_Final`, which write into an output
buffer of `wrapped_key_len + EVP_MAX_BLOCK_LENGTH` bytes.

- **A call is one step.** Its inputs are the lengths, the header fields, the padding flag, and
  whether each library call fails.
- **What the step records:** the size of each buffer (`size`) and every byte range read or
  written (`acc`).
- **The code's arithmetic:** `PadLen`, `MaxLen` and `ToSize`, the int-to-`size_t` conversion.
- **OpenSSL:** the `Evp*` operators give the bytes OpenSSL writes for a block cipher. With padding
  on, `Final` writes a full block of padding.
- **`NoOverflow`:** every range has a non-negative length and lies inside its buffer.
- **`size_t` width:** it is 16 bits in the run. Every sum the run forms is below 2^15 in
  magnitude, so the reduction behaves as it does at 64 bits. Only the sign extension of a
  negative field matters.
- **Running one function:** the constant `Funcs` selects the functions called. Set it to one
  name to check that function alone.

### MC modules

`MC_HotplugUsb.tla` and `MC_HotplugNet.tla` give the constants model values.
`MC_SslCleanup.tla` names the sets of functions each SSL run checks.
`MC_DevpathRewrite.tla` gives the devpaths and names.

In `MC_HotplugUsb.tla`, both devices have the same vendor/product, and u2's serial extends
u1's. So the sysfs lookup of u1 accepts u2.

## Runs

| Run | Expect | What it shows |
|---|---|---|
| usb_safety (`MC_HotplugUsb.cfg`) | pass | `GenericAccessRevoked`: once a generic device has left a node and its remove event is handled, no generic mapping still allows that node. This holds with numbers reused and uevents late. 2 containers, 2 serials, 2 nodes, 3 plugs, 2 registrations, symmetry. |
| usb_live (`_live`) | pass | `TokenTimerTerminates`: every token timer goes away. The shared counter guarantees it. `MappedAddAllowed` (spec property 3, the allow half): an add uevent of a device a container maps leads to the container's device-cgroup allow on the device's major:minor, unless the device is unplugged or the mapping unregistered first. This also holds when the mapping is registered while the uevent waits in the queue. 36,786 states. |
| usb_access (`_access`) | violation | `UsbAccessFollowsMappings`: a container holds a USB device (a device-cgroup entry, or a token attachment) only through a mapping of its own for the device now on that node, and at most one container holding a token mapping is allowed on the token. Four defects violate it; the findings give their traces. (a) A token's remove only detaches: its allow stays (plug, register, add, unplug, remove). (b) `hotplug_unregister_usbdevice` denies, detaches and cancels nothing. (c) A token timer outlives its device: it attaches the container to the device that took the node after the remove was handled. (d) Registration never checks the list, so two containers are both allowed on one token. |
| usb_budget | violation | `TokenRetryBudget`: a timer gets exactly its own 10 attempts. Two defects violate it. (a) Earlier timers spent the static counter, so a later timer gives up before its 10th callback. (b) `0 > retries--` tests the value before the decrement, so one timer attaches at its 11th callback, 1.1 s after the add (16 states, one timer). Each was confirmed alone: with (b) fixed in a copy of the module, (a) still violates the property with two timers. |
| net_safety (`MC_HotplugNet.cfg`) | pass | `PhysListKnowsHostIfaces`: every host interface whose add was handled is on cmld's list. This holds through start-up renames, timer renames, name reuse, returns from compartments and a restart of cmld. `FirstRegistrationWins`: both compartments may map the wired interface's MAC, up to three mappings; while the mapping that decides an interface's target stays in the list, no other registration or unregistration redirects the interface. With three mappings `c0, c1, c0` of one MAC, this depends on `hotplug_unregister_netdev` removing the last match: removing the first would hand the interface to `c1` while `c0` still maps it. |
| net_live (`_live`) | pass | `EthTimerTerminates` and `NetIfaceReachesTarget` (spec property 4): a plugged interface mapped to a live compartment ends up there. This run also lets cmld shut down (`Shutdown = TRUE`). The escapes are: cmld shuts down, it is unplugged, the mapping goes, or the compartment stops. Also `NameAllocation`: `HotplugNet` refines `NameAllocator`. |
| net_wifi | violation | `WifiTimerTerminates`: a wlan interface unplugged before sysfs is ready leaves a timer that repeats for ever. |
| net_naming (`_naming`) | violation | `MovedIfaceRenamed` (spec property 4): an interface moved into a compartment carries `cml<family><n>` of its own family. Three defects violate it. (a) An ethernet timer whose interface was unplugged renames a wlan interface that got the same kernel name to `cmleth<n>`. (b) After a restart of cmld (hosted mode, a second wired interface) the eth counter is 0 again while an interface still holds `cmleth0`: the rename of the next plugged interface fails and it is moved under its kernel name. (c) A mobile broadband modem (DEVTYPE `wwan`) is renamed `cmlwwan<n>`: the infix is the uevent's DEVTYPE, and every infix but `wlan` draws from the eth counter (7 states, the shortest trace). |
| ssl_cleanup (`MC_SslCleanup.cfg`) | pass | `NoMemoryFault`, `FailClosed`, `GivesOnlyOnSuccess` over every path of the twenty functions other than `ssl_init`, `ssl_hash_buf` and `ssl_verify_signature_from_buf`. |
| ssl_memory (`_memory`) | violation | `MemorySafe` over the fourteen functions below. Memory faults (`NoMemoryFault`) in `ssl_init`, `ssl_hash_buf` and `ssl_verify_signature_from_buf`. When `ENGINE_init` fails, `ssl_init`'s error label calls `ENGINE_free` and then `ENGINE_finish` on the engine it just freed. `ssl_hash_buf` calls `fclose` on its never-opened `fp` (NULL) when `EVP_MD_CTX_new` or `EVP_DigestUpdate` fails. `ssl_verify_signature_from_buf` hands an unchecked, possibly NULL hash to `ssl_verify_signature_from_digest`, which `ASSERT`s it. Leaks (`NoLeak`): `ssl_unwrap_key`, `ssl_wrap_key_sym` and `ssl_unwrap_key_sym` free only the cipher context when an EVP call fails, so the output buffer is lost: plaintext key material for the unwrap functions. `ssl_newpass_pkcs12_token` never frees the key and certificate `PKCS12_parse` gave it. `ssl_verify_certificate` loses `chain_cert` when `sk_X509_push` fails. `ssl_mkreq` never frees `uri_uuid` and loses `exts` on failure; `add_ext_req` and `ssl_add_ext_cert` lose the extension when adding it fails; `ssl_mkcert` frees nothing on failure; `ssl_self_sign_csr` never frees `cert_name`; `ssl_verify_signature` frees none of its buffers. |
| net_devpath (`MC_DevpathRewrite.cfg`) | violation | `DevpathNamesInterface`: `hotplug_replace_devpath_new` replaces the first occurrence of the old name. For `usb1` on USB bus 1, the path `/u1/n/u1` becomes `/c0/n/u1`: the bus directory is renamed and the interface's own component is kept. |
| ssl_buffers (`MC_SslBuffers.cfg`) | violation | `NoOverflow`. With padding and an `inlen` that is a multiple of 16, `ssl_aes_ecb_encrypt` admits `*outlen = inlen`, and `EVP_EncryptFinal_ex` writes a 16-byte padding block past it. `ssl_unwrap_key` accepts a header whose fields are negative but have the right sum: with `tmpkeylen = 1, keylen = -1` on a 24-byte key, `EVP_OpenInit` reads one byte past the end. The model lets `EVP_OpenInit` succeed whatever the lengths; with that, a more negative `tmpkeylen` would move the ciphertext pointer before the ciphertext and overflow `out`. Real OpenSSL may refuse such an `ekl` in `EVP_OpenInit`, so only the one-byte over-read is claimed as reachable. `ssl_aes_ecb_decrypt` alone holds. |

`ssl_memory` groups the functions that break memory safety. TLC reports the first
counterexample it reaches. Setting `Progs` to a single function (for example
`Progs <- {SslNewpassPkcs12Token}`) shows each one. Every function named above was checked that
way. `usb_access` likewise groups four USB defects. Each one was confirmed separately: with the
other three fixed in a copy of the module, the defect alone still violates the property. With
all four fixed, the property holds over 160,777 states. `net_naming` groups three net defects the
same way. With the stale-timer lookup fixed (a timer acts only on the interface that sent its
event), the restart defect alone violates the property in 15 steps. With that fix and no
restart, the modem alone violates it in 7 steps.

Net mappings are not checked for uniqueness when registered either. Spec section 3 says a MAC
appears in at most one mapping. The code keeps every duplicate, and the first one registered
wins. `FirstRegistrationWins` checks that this is at least stable: a later registration of
another compartment never takes the interface over, and unregistering one of a compartment's
duplicate mappings (the last match is removed) keeps the interface with it. Whether a duplicate should be refused is
left to the callers, which are not in the sources.

The serial prefix match of `set_sysfs_props` is modelled: u1's usbdev may record u2's
major:minor. Within `hotplug.c`, its only effect is a deny or token detach when u2 is removed.
With the four `usb_access` defects fixed, `UsbAccessFollowsMappings` still holds with the prefix
match in place, so that deny or detach revokes nothing a container holds. The allow the container
issues after registering is in `container.c`, which is not in the sources.

A rename or move the kernel refuses is dropped, not retried. Spec section 7 asks for exactly that
("hotplug failures are logged and dropped"), so spec property 4 is checked without kernel faults
(`KernelFaults = FALSE`).

Each property of a passing run has a mutant in `PROJECT.json`: a plausible bug in the mapped
definition that TLC catches.

## Bounds and why they are enough

- Two of each kind of thing: containers, serials or interfaces, and nodes or kernel names. That
  is the least that lets a node or name be reused by a *different* device, which is the source
  of every stale-state finding.
- `MaxEvents = 2` lets a second event queue behind an unhandled one.
- Three plugs allow plug, unplug and a re-plug of another device.
- `TokenRetries = 2` keeps the counter's exhaustion reachable. `usb_budget` uses 10, the code's
  value.
- `net_safety` allows three mappings and three registrations, of the wired interface's MAC
  only: two compartments can map one MAC, one of them twice, so which duplicate an
  unregistration removes decides the target. It allows one plug event in a behaviour. It allows one container
  start, which is enough for an interface to come back to the host, and one restart of cmld.
  The liveness runs use one mapping (a registration, and an unregistration of it, is all a
  move's target depends on), one start and no restart, to stay within minutes.
- `net_naming` adds a second wired interface, absent at start, and runs in hosted mode: the
  least that lets a name kept across a restart meet the next rename of its family. It also
  adds a mobile broadband modem (DEVTYPE `wwan`), absent at start: a physical DEVTYPE other than
  none and `wlan`, which the rename also has to name.
- `DevpathRewrite` enumerates every combination of two parent paths and three interface names.
  That includes a name which also names a parent directory.
- The SSL runs are exhaustive: every path of every modelled function, with every allocation and
  call succeeding or failing. Loops (the chain-reading loop) are bounded by `MaxRef`.
- `ssl_buffers` uses the real block size (16), iv length (16), `sizeof(int)` (4) and
  `EVP_MAX_BLOCK_LENGTH` (32).
  - Lengths range over 0..40 and `*outlen` over 0..50. This covers every residue modulo the block
    and the multiples 0, 16 and 32.
  - Header fields range over -48..48. This includes fields negative enough to move the
    ciphertext pointer before the buffer and past the output bound.

## Fairness

- **SSL:** the runs check only invariants of single calls, so they assume no fairness.
- **Both hotplug modules:** the event loop services every ready fd and every due timer. So handling a
  uevent, and firing a timer, are weakly fair.
  - USB: fairness is per (container, node).
  - Net: fairness is per interface.
- **`hotplug_init`** runs to its end.
- **Kernel:** it eventually publishes a plugged wlan interface's wireless entry.
- **No fairness on:** the other kernel actions, registrations, compartment transitions, the
  shutdown and restarts of cmld.
  These are the environment's choice.
- **Deadlock checking is off.** The daemon legitimately idles once the bounded environment is
  spent.

## Plan for further sittings

1. `ssl_free` together with a second `ssl_init`. The engine global lives across calls, which the
   one-call interpreter does not model.

## Not modelled

- `container.c`, the event loop, the uevent library and the control interface are not in the
  sources. They appear only as environment and fairness.
- Logging and string formatting are left out. So are the uevent copy's fields other than the
  devpath.
- `ssl_free`, `ssl_aes_ctr_encrypt/decrypt/free` and `ssl_set_pkey_ctx_rsa_pss` are not
  modelled. The last four are one-call wrappers around OpenSSL with no error path of their own.
  `ssl_free` acts on the global `tpm_engine` that a previous `ssl_init` left behind, and the
  interpreter models one call at a time.
- A second `hotplug_cleanup` would act on the freed, non-NULL `uevent_uev`. The model has
  cmld's shutdown call it once.
- `hotplug_netdev_move` writes the new interface name into the mapping's `pnet_cfg` (line 385),
  a record of the container's configuration. That overwrites the MAC string that
  registration parses. What a later registration of the same record does depends on the
  container code, so the model gives every registration a fresh record. This is listed as a
  hazard without a property.
- `src/common/sock.h` declares the socket helpers but has no bodies, and no modelled code calls
  them. The build files and CI pipeline have no runtime behaviour.
