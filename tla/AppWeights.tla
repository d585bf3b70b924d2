----------------------------- MODULE AppWeights -----------------------------
(***************************************************************************)
(* The arithmetic of src/r-app-policy.c: the [AppBoost] group of           *)
(* uresourced.conf and the weight of an application.  The code does the    *)
(* same for the CPU and for the IO weight; one of them is modelled.        *)
(*                                                                         *)
(* A file is a function from the keys it has with a number to the number:  *)
(* a file that cannot be read, a key that is missing and a value that is   *)
(* no number all leave the built-in value.                                 *)
(***************************************************************************)
EXTENDS Integers

MinWeight == 1
MaxWeight == 10000
Weights   == MinWeight..MaxWeight
Keys      == {"Default", "Active", "BoostInc"}

(* Mutant: no lower bound. *)
ClampFromAbove(x, low, high) == IF x > high THEN high ELSE x

(* GLib's CLAMP: the upper bound is looked at first. *)
Clamp(x, low, high) == IF x > high THEN high ELSE IF x < low THEN low ELSE x

(* set_integer_from_key_file. *)
Integer(file, key, builtin) == IF key \in DOMAIN file THEN file[key] ELSE builtin

(* Mutant: the boost is clamped to the range of the weights. *)
ReadConfigLoosely(file) ==
  [default |-> Clamp(Integer(file, "Default", 100), MinWeight, MaxWeight),
   active  |-> Clamp(Integer(file, "Active", 100), MinWeight, MaxWeight),
   inc     |-> Clamp(Integer(file, "BoostInc", 0), 0, MaxWeight)]

(* read_config: the boost is clamped to what the active weight leaves. *)
ReadConfig(file) ==
  LET active == Clamp(Integer(file, "Active", 100), MinWeight, MaxWeight) IN
  [default |-> Clamp(Integer(file, "Default", 100), MinWeight, MaxWeight),
   active  |-> active,
   inc     |-> Clamp(Integer(file, "BoostInc", 0), 0, MaxWeight - active)]

(* app_info_changed, up to the call. *)
WeightOf(cfg, focused, boosted) ==
  (IF focused THEN cfg.active ELSE cfg.default) + (IF boosted THEN cfg.inc ELSE 0)
=============================================================================
