---------------------------- MODULE ManagerConfig ----------------------------
(***************************************************************************)
(* The arithmetic of r-manager.c around RManager: what read_config makes   *)
(* of uresourced.conf, and user.slice's share of it, in the 64 bits of a   *)
(* guint64.  MemoryMin stands for MemoryLow and the CPU weight for the IO  *)
(* weight, which are treated alike.                                        *)
(*                                                                         *)
(* A file is a function from the keys it has to numbers with a unit: "" is *)
(* none, and "?" stands for text that is no number and for unknown units.  *)
(***************************************************************************)
EXTENDS Integers

CONSTANTS
  Width,    \* 2^64
  Kilo,     \* 1024
  Hundred,  \* 100
  Ram       \* available_ram

(* A machine has less than 184 petabytes: percents do not wrap around. *)
ASSUME ConfigAssumption ==
  /\ Width \in Nat /\ Kilo \in Nat \ {0} /\ Hundred \in Nat \ {0} /\ Ram \in Nat
  /\ Width % 2 = 0 /\ Hundred * Ram < Width

Factor == [K |-> Kilo, M |-> Kilo * Kilo, G |-> Kilo * Kilo * Kilo,
           T |-> Kilo * Kilo * Kilo * Kilo]
Suffixes == DOMAIN Factor \cup {"", "%", "?"}
ConfigKeys == {"MaxMemory", "Memory", "Weight", "SessionMemory", "SessionWeight"}
IsManagerFile(file) ==
  \E keys \in SUBSET ConfigKeys : file \in [keys -> [number : Int, unit : Suffixes]]

Least(a, b) == IF a < b THEN a ELSE b

(* g_ascii_strtoll clamps to 64 signed bits; the result is taken unsigned. *)
Strtoll(n) ==
  LET half == Width \div 2
  IN (IF n >= half THEN half - 1 ELSE IF n < -half THEN -half ELSE n) % Width

(* Mutant: the division comes first. *)
PercentDividedFirst(n) == (Least(Hundred, n) \div Hundred) * Ram

Percent(n) == ((Least(Hundred, n) * Ram) % Width) \div Hundred

(* A key for which config_get_memory, or g_key_file_get_integer, fails. *)
NoMemory(file, key)  == key \notin DOMAIN file \/ file[key].unit = "?"
NoInteger(file, key) == key \notin DOMAIN file \/ file[key].unit # ""

ConfigGetMemory(file, key) ==
  IF NoMemory(file, key) THEN 0
  ELSE LET unit == file[key].unit
           res == Strtoll(file[key].number)
       IN CASE unit = "" -> res
            [] unit = "%" -> Percent(res)
            [] OTHER -> (res * Factor[unit]) % Width

GetInteger(file, key) == IF NoInteger(file, key) THEN 0 ELSE file[key].number

(* read_config, of a file that could be read: the session follows the user. *)
ReadManagerConfig(file) ==
  LET memory == ConfigGetMemory(file, "Memory")
      weight == GetInteger(file, "Weight")
  IN [max |-> ConfigGetMemory(file, "MaxMemory"),
      active_user |-> [memory |-> memory, weight |-> weight],
      session_slice |->
        [memory |-> IF NoMemory(file, "SessionMemory") THEN memory
                    ELSE ConfigGetMemory(file, "SessionMemory"),
         weight |-> IF NoInteger(file, "SessionWeight") THEN weight
                    ELSE GetInteger(file, "SessionWeight")]]

(* set_user_slice_resources. *)
UserSliceMemory(config, users) ==
  Least((users * config.active_user.memory) % Width, config.max)

-----------------------------------------------------------------------------
(* What data/uresourced.conf.in means, in numbers of any size. *)
Meant(file, key) ==
  IF NoMemory(file, key) THEN 0
  ELSE LET n == file[key].number
           unit == file[key].unit
       IN CASE unit = "" -> n
            [] unit = "%" -> (Least(Hundred, n) * Ram) \div Hundred
            [] OTHER -> n * Factor[unit]

(* No number is negative, and what it stands for fits into 63 bits. *)
Sane(file) ==
  \A key \in DOMAIN file :
    file[key].number >= 0 /\ 2 * file[key].number < Width /\ 2 * Meant(file, key) < Width

(***************************************************************************)
(* data/uresourced.conf.in:2-4, "user.slice system will get a MemoryLow    *)
(* allocation of min(ActiveUser.MemoryLow * active_users, MaxMemoryLow)",  *)
(* and :17, "The following values default to the ones from ActiveUser": it *)
(* is as if the numbers had no width, for amounts two users of which fit.  *)
(***************************************************************************)
AsDocumented(file, users) ==
  LET config == ReadManagerConfig(file) IN
  /\ Sane(file) /\ users * Meant(file, "Memory") < Width =>
       UserSliceMemory(config, users)
         = Least(users * Meant(file, "Memory"), Meant(file, "MaxMemory"))
  /\ UserSliceMemory(config, users) <= config.max
  /\ DOMAIN file \cap {"SessionMemory", "SessionWeight"} = {} =>
       config.session_slice = config.active_user
=============================================================================
