---------------------------- MODULE SystemConfig ----------------------------
(***************************************************************************)
(* The settings of the server.  The login, organization and frontend       *)
(* settings are replaced as a whole: a row of SQLite, then the instance in *)
(* State.cache that the handlers read.  The common settings are one row,   *)
(* read, merged with the fields of a request and written back, and have no *)
(* copy in memory.  Neither takes a lock over its two steps.               *)
(***************************************************************************)
EXTENDS Integers, TLC

CONSTANTS Editors,    \* requests of administrators
          Values, Fields,
          Unset,      \* not a value: there is no row, no instance, no field
          \* bounds of the model
          MaxSets, MaxConfigTroubles

ASSUME UnsetAssumption == Unset \notin Values

VARIABLES configRow,   \* SQLite: the row of a setting
          instance,    \* State.cache.dynamic_config
          commonRow,   \* SQLite: the fields of the row "common"
          editing,     \* where each request is
          \* history, read by the properties only
          answered,    \* the value each common field was last answered Ok for
          unsettled,   \* a request was dropped half way, or another's halves crossed it
          overlaid,    \* fields written between the two steps of a request for another field
          configUsed

configVars == <<configRow, instance, commonRow, editing, answered, unsettled, overlaid, configUsed>>

Common == [Fields -> Values \cup {Unset}]

NoEdit == [pc |-> "idle"]

EditState == {NoEdit} \cup [pc : {"stored"}, value : Values]
                 \cup [pc : {"read"}, seen : Common, field : Fields, value : Values, missed : SUBSET Fields]

ConfigTypeOK ==
    /\ configRow \in Values \cup {Unset} /\ instance \in Values \cup {Unset}
    /\ commonRow \in Common /\ answered \in Common
    /\ editing \in [Editors -> EditState]
    /\ overlaid \subseteq Fields

Spent(what, max) == configUsed[what] < max /\ configUsed' = [configUsed EXCEPT ![what] = @ + 1]

\* set_dynamic_config: the row, without a lock.
StoreConfig(e, v) ==
    /\ editing[e].pc = "idle" /\ Spent("sets", MaxSets)
    /\ configRow' = v
    /\ editing' = [editing EXCEPT ![e] = [pc |-> "stored", value |-> v]]
    /\ unsettled' = (unsettled /\ \E x \in Editors : editing[x].pc = "stored")
    /\ UNCHANGED <<instance, commonRow, answered, overlaid>>

\* Mutant of NewInstance: the instance of a setting is made once.
FirstInstance(v) == IF instance = Unset THEN v ELSE instance

NewInstance(v) == v

\* set_dynamic_config: the instance, under the write guard.
CacheConfig(e) ==
    /\ editing[e].pc = "stored"
    /\ instance' = NewInstance(editing[e].value)
    /\ editing' = [editing EXCEPT ![e] = NoEdit]
    /\ unsettled' = (unsettled \/ configRow # editing[e].value)
    /\ UNCHANGED <<configRow, commonRow, answered, overlaid, configUsed>>

\* update_common_config: load.
ReadCommon(e, f, v) ==
    /\ editing[e].pc = "idle" /\ Spent("sets", MaxSets)
    /\ editing' = [editing EXCEPT ![e] = 
                      [pc |-> "read", seen |-> commonRow, field |-> f, value |-> v, missed |-> {}]]
    /\ UNCHANGED <<configRow, instance, commonRow, answered, unsettled, overlaid>>

\* Mutant of Merged: the row becomes what the request carries.
Replaced(edit) == [f \in Fields |-> IF f = edit.field THEN edit.value ELSE Unset]

\* The partial update of what was read.
Merged(edit) == [edit.seen EXCEPT ![edit.field] = edit.value]

\* update_common_config: the merged row replaces the one there is.
WriteCommon(e) ==
    LET edit == editing[e] IN
    /\ edit.pc = "read"
    /\ commonRow' = Merged(edit)
    /\ answered' = [answered EXCEPT ![edit.field] = edit.value]
    /\ overlaid' = (overlaid \cup edit.missed) \ {edit.field}
    /\ editing' = [x \in Editors |->
                     IF x = e THEN NoEdit
                     ELSE IF editing[x].pc = "read" THEN [editing[x] EXCEPT !.missed = @ \cup {edit.field}]
                     ELSE editing[x]]
    /\ UNCHANGED <<configRow, instance, unsettled, configUsed>>

\* A request is dropped between its steps.
DropEdit(e) ==
    /\ editing[e].pc # "idle" /\ Spent("troubles", MaxConfigTroubles)
    /\ unsettled' = (unsettled \/ editing[e].pc = "stored")
    /\ editing' = [editing EXCEPT ![e] = NoEdit]
    /\ UNCHANGED <<configRow, instance, commonRow, answered, overlaid>>

\* initialize_dynamic_config.
RestartConfig ==
    /\ Spent("troubles", MaxConfigTroubles)
    /\ instance' = configRow
    /\ unsettled' = FALSE
    /\ editing' = [e \in Editors |-> NoEdit]
    /\ UNCHANGED <<configRow, commonRow, answered, overlaid>>

ConfigInit ==
    /\ configRow = Unset /\ instance = Unset
    /\ commonRow = [f \in Fields |-> Unset] /\ answered = commonRow
    /\ editing = [e \in Editors |-> NoEdit]
    /\ unsettled = FALSE /\ overlaid = {}
    /\ configUsed = [sets |-> 0, troubles |-> 0]

ConfigNext ==
    \/ \E e \in Editors :
        \/ \E v \in Values : StoreConfig(e, v)
        \/ \E f \in Fields, v \in Values : ReadCommon(e, f, v)
        \/ CacheConfig(e) \/ WriteCommon(e) \/ DropEdit(e)
    \/ RestartConfig

ConfigSpec == ConfigInit /\ [][ConfigNext]_configVars

----------------------------------------------------------------------------
\* Properties.

\* Once no set is half done, the handlers go by the setting that is stored,
\* which get_config answers and the next start loads.  Not so after a set was
\* dropped half way or two sets wrote row and instance in opposite orders: then
\* they differ until the next set or start.
InstanceAgrees ==
    (\A e \in Editors : editing[e].pc # "stored") /\ ~unsettled => instance = configRow

\* "partial update, merges into existing": a field keeps the value that the last
\* request for it was answered Ok for, whatever other fields are set.  The code
\* keeps that only for requests that do not overlap: one that read the row
\* before another wrote it puts the other's field back.
CommonKept == \A f \in Fields \ overlaid : commonRow[f] = answered[f]
=============================================================================
