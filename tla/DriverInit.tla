----------------------------- MODULE DriverInit -----------------------------
(***************************************************************************)
(* hw1/led_driver.c and hw1/seg_driver.c, etx_driver_init and              *)
(* etx_driver_exit, which differ in the GPIOs only: what the driver has    *)
(* acquired, one kernel call after another, any of which may fail, and     *)
(* what its error labels and its exit give back, falling from each label   *)
(* through to the next.  The GPIOs may be in use by somebody else.         *)
(*                                                                         *)
(* The kernel is external: a call acquires its resource or fails, and      *)
(* gpio_free frees the GPIO, whoever requested it.  A class_create or a    *)
(* device_create that fails returns an ERR_PTR where the code looks for    *)
(* NULL, so the driver takes it for a success and goes on without; and     *)
(* device_destroy reads through the class it is given.                     *)
(***************************************************************************)
EXTENDS Integers

CONSTANT NumGpios  \* 8 LEDs, 7 segments

ASSUME DriverAssumption == NumGpios \in Nat \ {0}

Gpios == 1 .. NumGpios  \* in the order in which the driver takes them

Resources == {"region", "cdev", "class", "device"}

VARIABLES
  pc,       \* the next call, or the error label, of the driver
  gpio,     \* the GPIO that call is about
  held,     \* the resources the driver holds
  owner,    \* per GPIO: who requested it
  refused,  \* history: the creations of this initialisation that failed unseen
  denied    \* history: the GPIO whose request failed in it, 0 if none

history == <<refused, denied>>

loading == <<pc, gpio, held, owner, history>>

Setup    == {"region", "cdev", "class", "device", "valid", "request", "configure"}
Teardown == {"r_gpio", "r_device", "r_class", "r_del", "r_unreg"}

LoadInit ==
  /\ pc = "unloaded" /\ gpio = 1 /\ held = {} /\ refused = {} /\ denied = 0
  /\ owner = [g \in Gpios |-> "nobody"]

-----------------------------------------------------------------------------
Insmod ==
  /\ pc = "unloaded" /\ pc' = "region" /\ refused' = {} /\ denied' = 0
  /\ UNCHANGED <<gpio, held, owner>>

(* The call at a acquires the resource a and goes on to b, or fails. *)
Acquire(a, b, label) ==
  /\ pc = a
  /\ \/ pc' = b /\ held' = held \cup {a}
     \/ pc' = label /\ UNCHANGED held
  /\ gpio' = 1 /\ UNCHANGED <<owner, history>>

AllocRegion == Acquire("region", "cdev", "r_unreg")

AddCdev == Acquire("cdev", "class", "r_del")

(* The call at a, which succeeds only with what it needs; it goes on to b in *)
(* any case, an ERR_PTR not being NULL.                                      *)
Create(a, needed, b) ==
  /\ pc = a /\ pc' = b
  /\ \/ needed \subseteq held /\ held' = held \cup {a} /\ UNCHANGED refused
     \/ refused' = refused \cup {a} /\ UNCHANGED held
  /\ gpio' = 1 /\ UNCHANGED <<owner, denied>>

CreateClass == Create("class", {}, "device")

CreateDevice == Create("device", {"class"}, "valid")

LastGpio_oneEarly == gpio = NumGpios - 1

LastGpio == gpio = NumGpios

(* On to the next GPIO, after the last one to b. *)
NextGpio(a, b) ==
  IF LastGpio THEN pc' = b /\ gpio' = 1 ELSE pc' = a /\ gpio' = gpio + 1

InvalidLabel_freesAll == "r_gpio"

InvalidLabel == "r_device"

CheckGpio ==
  /\ pc = "valid"
  /\ \/ NextGpio("valid", "request")
     \/ pc' = InvalidLabel /\ gpio' = 1
  /\ UNCHANGED <<held, owner, history>>

GpioLabel_ofCheck == "r_device"

GpioLabel == "r_gpio"

RequestGpio ==
  /\ pc = "request"
  /\ \/ /\ owner[gpio] = "nobody" /\ NextGpio("request", "configure")
        /\ owner' = [owner EXCEPT ![gpio] = "driver"]
        /\ UNCHANGED denied
     \/ /\ pc' = GpioLabel /\ gpio' = 1 /\ denied' = gpio
        /\ UNCHANGED owner
  /\ UNCHANGED <<held, refused>>

(* gpio_direction_output and gpio_export, whose results nobody looks at. *)
Configure == pc = "configure" /\ pc' = "loaded" /\ UNCHANGED <<gpio, held, owner, history>>

(* etx_driver_exit frees the GPIOs, and goes on, in the same order as r_gpio.*)
Rmmod == pc = "loaded" /\ pc' = "r_gpio" /\ UNCHANGED <<gpio, held, owner, history>>

FreeGpio ==
  /\ pc = "r_gpio" /\ NextGpio("r_gpio", "r_device")
  /\ owner' = [owner EXCEPT ![gpio] = "nobody"]
  /\ UNCHANGED <<held, history>>

Release(a, r, b) ==
  /\ pc = a /\ pc' = b /\ held' = held \ {r} /\ UNCHANGED <<gpio, owner, history>>

(* device_destroy of a class that is an ERR_PTR is an oops: the driver stops *)
(* for good, neither loaded nor unloaded.                                    *)
DestroyDevice ==
  IF "class" \in held
  THEN Release("r_device", "device", "r_class")
  ELSE pc = "r_device" /\ pc' = "oops" /\ UNCHANGED <<gpio, held, owner, history>>

DestroyClass == Release("r_class", "class", "r_del")

DelCdev == Release("r_del", "cdev", "r_unreg")

UnregRegion == Release("r_unreg", "region", "unloaded")

(* Somebody else requests a GPIO, and frees it. *)
Others(g) ==
  /\ \/ owner[g] = "nobody" /\ owner' = [owner EXCEPT ![g] = "others"]
     \/ owner[g] = "others" /\ owner' = [owner EXCEPT ![g] = "nobody"]
  /\ UNCHANGED <<pc, gpio, held, history>>

Driver ==
  \/ Insmod \/ AllocRegion \/ AddCdev \/ CreateClass \/ CreateDevice \/ CheckGpio
  \/ RequestGpio \/ Configure \/ Rmmod \/ FreeGpio \/ DestroyDevice \/ DestroyClass
  \/ DelCdev \/ UnregRegion

LoadNext == Driver \/ \E g \in Gpios : Others(g)

LoadSpec == LoadInit /\ [][LoadNext]_loading

-----------------------------------------------------------------------------
(* Every variable stays in its range. *)
LoadTypeOK ==
  /\ pc \in {"unloaded", "loaded", "oops"} \cup Setup \cup Teardown
  /\ gpio \in Gpios
  /\ held \subseteq Resources
  /\ owner \in [Gpios -> {"nobody", "driver", "others"}]
  /\ refused \subseteq {"class", "device"}
  /\ denied \in {0} \cup Gpios

Owned == {g \in Gpios : owner[g] = "driver"}

(* An initialisation that failed, wherever it did and whatever was refused   *)
(* before without being seen, and an exit leave the driver nothing.          *)
NothingKept == pc = "unloaded" => held = {} /\ Owned = {}

(* A driver is loaded with all GPIOs, and lacks a class or a device only     *)
(* where the kernel refused to create it and the code did not see it.        *)
LoadedLacksOnlyRefused ==
  pc = "loaded" => Owned = Gpios /\ Resources \ held = refused

(* Nothing is given back before what was built on it: the class outlives the *)
(* device, the cdev the class and the region the cdev, and as long as the    *)
(* driver has a GPIO it has whatever the kernel did not refuse.              *)
DependentsFirst ==
  /\ "cdev" \in held => "region" \in held
  /\ "class" \in held => "cdev" \in held
  /\ "device" \in held => "class" \in held
  /\ Owned # {} => Resources \ held \subseteq refused

(* The driver frees or takes a GPIO of somebody else in one case only: a     *)
(* request of its own was denied, and r_gpio frees the GPIOs it did not get  *)
(* to, the denied one and those after it.  Never when a GPIO is not valid,   *)
(* never in an exit.                                                         *)
OthersKeepTheirs ==
  [][\A g \in Gpios :
       Driver /\ owner[g] = "others" /\ owner'[g] # "others"
         => denied # 0 /\ g >= denied]_loading

(* What led_driver.c:176 and 181 announce, "Cannot create ...", and what one *)
(* would expect of r_gpio; the code has neither.                             *)
LoadedIsComplete == pc = "loaded" => held = Resources

OthersAlwaysKeepTheirs ==
  [][\A g \in Gpios : Driver /\ owner[g] = "others" => owner'[g] = "others"]_loading

=============================================================================
