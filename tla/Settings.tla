------------------------------ MODULE Settings ------------------------------
(***************************************************************************)
(* Device settings: the layers they come from (cover.rs, make_covers;      *)
(* overrides.rs, prepare), the switches that change them, the block that   *)
(* SettingsChanged asks the host to keep (driver.rs, settings_block) and   *)
(* the driver built from it at the next reload.                            *)
(*                                                                         *)
(* A block is a function from the settings to a value, or Unset where it   *)
(* says nothing.  The settings of one cover and the accept_passive setting *)
(* of the delta properties follow the same rule and are not told apart.    *)
(***************************************************************************)
EXTENDS Integers

CONSTANTS
  Unset,      \* a setting a block does not name
  Keys,       \* the settings
  Choices,    \* their values
  Default,    \* [Keys -> Choices]: the engine's, from the rule pack's defaults
  PackBlocks  \* the product and device blocks the rule pack's overrides can hold

SettingBlocks == [Keys -> Choices \cup {Unset}]
Empty == [k \in Keys |-> Unset]

ASSUME SettingsAssumption ==
  /\ Unset \notin Choices \cup SettingBlocks
  /\ Default \in [Keys -> Choices]
  /\ Empty \in PackBlocks
  /\ PackBlocks \subseteq SettingBlocks

VARIABLES
  packProduct, \* rules["overrides"][product]
  packDevice,  \* rules["overrides"][device]
  product,     \* options.overrides[product], the user's block of the product
  user,        \* the user's own block of the device
  saved,       \* the settings block the host keeps
  ownBlocks,   \* Driver.own_blocks: the product and device blocks of options.overrides
  inForce,     \* the settings in force
  told         \* the block of a SettingsChanged the host is yet to save, or Unset

layers == <<packProduct, packDevice, product, user>>
settingsVars == <<layers, saved, ownBlocks, inForce, told>>

(* data.rs merge, on blocks without nesting: the later one wins. *)
Merge(dst, src) == [k \in Keys |-> IF src[k] = Unset THEN dst[k] ELSE src[k]]

(* The host lays the settings it keeps over the user's device block. *)
DeviceBlock == Merge(user, saved)

(* Driver::new.  The rule pack's overrides go under those of the options,  *)
(* key by key; the product's block goes under the device's.                *)
Layered(prod, device) ==
  Merge(Default, Merge(Merge(packProduct, prod), Merge(packDevice, device)))

(* What a setting is without a device block, as settings_block sees it. *)
Base == Merge(Default, ownBlocks.product)

(* Variant: a setting equal to its base is left out even if the device     *)
(* block names it.                                                         *)
Differing(now) == [k \in Keys |-> IF now[k] # Base[k] THEN now[k] ELSE Unset]
SettingsBlock(now) ==
  [k \in Keys |-> IF now[k] # Base[k] \/ ownBlocks.device[k] # Unset THEN now[k] ELSE Unset]

-----------------------------------------------------------------------------
(* A switch is written: the setting is in force at once and the host is    *)
(* told the whole block.                                                   *)
WriteSetting(k, v) ==
  LET now == [inForce EXCEPT ![k] = v]
  IN  /\ inForce' = now
      /\ told' = SettingsBlock(now)
      /\ UNCHANGED <<layers, saved, ownBlocks>>

(* The host keeps the block in place of the one it had. *)
Save ==
  /\ told # Unset
  /\ saved' = told
  /\ told' = Unset
  /\ UNCHANGED <<layers, ownBlocks, inForce>>

(* A driver built from override files p and u and the block kept; one that *)
(* was not saved is lost.  The files are the user's to edit.               *)
Build(p, u) ==
  LET device == Merge(u, saved)
  IN  /\ product' = p
      /\ user' = u
      /\ ownBlocks' = [product |-> p, device |-> device]
      /\ inForce' = Layered(p, device)
      /\ told' = Unset
      /\ UNCHANGED <<packProduct, packDevice, saved>>

SettingsInit ==
  /\ packProduct \in PackBlocks
  /\ packDevice \in PackBlocks
  /\ product \in SettingBlocks
  /\ user \in SettingBlocks
  /\ saved = Empty
  /\ ownBlocks = [product |-> product, device |-> user]
  /\ inForce = Layered(product, user)
  /\ told = Unset

SettingsNext ==
  \/ \E k \in Keys, v \in Choices : WriteSetting(k, v)
  \/ Save
  \/ \E p, u \in SettingBlocks : Build(p, u)

SettingsSpec == SettingsInit /\ [][SettingsNext]_settingsVars

-----------------------------------------------------------------------------
SettingsTypeOK ==
  /\ {packProduct, packDevice} \subseteq PackBlocks
  /\ {product, user, saved} \subseteq SettingBlocks
  /\ ownBlocks \in [product : SettingBlocks, device : SettingBlocks]
  /\ inForce \in [Keys -> Choices]
  /\ told \in SettingBlocks \cup {Unset}

(* A switch's value is kept: once the host has saved what it was told, a   *)
(* driver built from that has the settings that were in force              *)
(* (docs/device-customization.md on SettingsChanged).                      *)
SurvivesReload == told = Unset => Layered(product, DeviceBlock) = inForce
=============================================================================
