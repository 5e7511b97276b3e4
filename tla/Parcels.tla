------------------------------- MODULE Parcels -------------------------------
(***************************************************************************)
(* The objects that cross the service's interface and their parcels: what  *)
(* each Marshalling writes and what each ReadFromParcel reads, in order.   *)
(* A field is <<kind, name>>.  An "Optional" is a flag, then the object    *)
(* when there is one; a kind that is itself a field's name is a vector     *)
(* that is there only when that flag is set.                               *)
(***************************************************************************)
EXTENDS Naturals, Sequences, SequencesExt

ContinuousTaskParam_Marshalling ==
  << <<"Bool", "isNewApi">>, <<"Uint32", "bgModeId">>, <<"Optional", "wantAgent">>,
     <<"String16", "abilityName">>, <<"String16", "appName">>, <<"Bool", "isBatchApi">>,
     <<"isBatchApi", "bgModeIds">>, <<"Int32", "abilityId">> >>

ContinuousTaskParam_MarshallingNewApi ==
  << <<"Vector", "bgSubModeIds">>, <<"Bool", "isCombinedTaskNotification">>,
     <<"Int32", "combinedNotificationTaskId">>, <<"Int32", "updateTaskId">>, <<"Bool", "isByRequestObject">>,
     <<"Int32", "appIndex">>, <<"Int32", "requestAuthApiVersion">>, <<"Optional", "progressInfo">> >>

ContinuousTaskParam_ReadFromParcel ==
  << <<"Bool", "isNewApi">>, <<"Uint32", "bgModeId">>, <<"Optional", "wantAgent">>,
     <<"String16", "abilityName">>, <<"String16", "appName">>, <<"Bool", "isBatchApi">>,
     <<"isBatchApi", "bgModeIds">>, <<"Int32", "abilityId">> >>

MutReadNewApiSwapped ==
  << <<"Vector", "bgSubModeIds">>, <<"Bool", "isCombinedTaskNotification">>,
     <<"Int32", "updateTaskId">>, <<"Int32", "combinedNotificationTaskId">>, <<"Bool", "isByRequestObject">>,
     <<"Int32", "appIndex">>, <<"Int32", "requestAuthApiVersion">>, <<"Optional", "progressInfo">> >>

ContinuousTaskParam_ReadFromParcelNewApi ==
  << <<"Vector", "bgSubModeIds">>, <<"Bool", "isCombinedTaskNotification">>,
     <<"Int32", "combinedNotificationTaskId">>, <<"Int32", "updateTaskId">>, <<"Bool", "isByRequestObject">>,
     <<"Int32", "appIndex">>, <<"Int32", "requestAuthApiVersion">>, <<"Optional", "progressInfo">> >>

ContinuousTaskParamForInner_Marshalling ==
  << <<"Bool", "isStart">>, <<"Uint32", "bgModeId">>, <<"Int32", "uid">>, <<"Int32", "abilityId">>,
     <<"Uint64", "tokenId">>, <<"Int32", "pid">> >>

ContinuousTaskParamForInner_ReadFromParcel ==
  << <<"Bool", "isStart">>, <<"Uint32", "bgModeId">>, <<"Int32", "uid">>, <<"Int32", "abilityId">>,
     <<"Uint64", "tokenId">>, <<"Int32", "pid">> >>

ContinuousTaskRequest_Marshalling ==
  << <<"Vector", "backgroundTaskModes">>, <<"Vector", "backgroundTaskSubmodes">>, <<"Optional", "wantAgent">>,
     <<"Bool", "combinedTaskNotification">>, <<"Int32", "continuousTaskId">>, <<"Bool", "isBuildByRequest">>,
     <<"Optional", "progressInfo">> >>

ContinuousTaskRequest_ReadFromParcel ==
  << <<"Vector", "backgroundTaskModes">>, <<"Vector", "backgroundTaskSubmodes">>, <<"Optional", "wantAgent">>,
     <<"Bool", "combinedTaskNotification">>, <<"Int32", "continuousTaskId">>, <<"Bool", "isBuildByRequest">>,
     <<"Optional", "progressInfo">> >>

ContinuousTaskInfo_Marshalling ==
  << <<"String", "abilityName">>, <<"Int32", "uid">>, <<"Int32", "pid">>, <<"Bool", "isFromWebView">>,
     <<"Vector", "backgroundModes">>, <<"Vector", "backgroundSubModes">>, <<"Int32", "notificationId">>,
     <<"Int32", "continuousTaskId">>, <<"Int32", "abilityId">>, <<"String", "wantAgentBundleName">>,
     <<"String", "wantAgentAbilityName">>, <<"Bool", "suspendState">>, <<"String", "bundleName">>,
     <<"Int32", "appIndex">>, <<"Bool", "isByRequestObject">> >>

ContinuousTaskInfo_ReadFromParcel ==
  << <<"String", "abilityName">>, <<"Int32", "uid">>, <<"Int32", "pid">>, <<"Bool", "isFromWebView">>,
     <<"Vector", "backgroundModes">>, <<"Vector", "backgroundSubModes">>, <<"Int32", "notificationId">>,
     <<"Int32", "continuousTaskId">>, <<"Int32", "abilityId">>, <<"String", "wantAgentBundleName">>,
     <<"String", "wantAgentAbilityName">>, <<"Bool", "suspendState">>, <<"String", "bundleName">>,
     <<"Int32", "appIndex">>, <<"Bool", "isByRequestObject">> >>

ContinuousTaskCallbackInfo_Marshalling ==
  << <<"Uint32", "typeId">>, <<"Int32", "creatorUid">>, <<"Int32", "creatorPid">>, <<"Bool", "isFromWebview">>,
     <<"String16", "abilityName">>, <<"Bool", "isBatchApi">>, <<"Vector", "typeIds">>, <<"Int32", "abilityId">>,
     <<"Uint64", "tokenId">>, <<"Int32", "continuousTaskId">>, <<"Int32", "cancelReason">>,
     <<"Int32", "detailedCancelReason">>, <<"Bool", "suspendState">>, <<"Int32", "suspendReason">>,
     <<"Bool", "isByRequestObject">>, <<"String16", "bundleName">>, <<"Int32", "userId">>, <<"Int32", "appIndex">>,
     <<"Vector", "backgroundSubModes">>, <<"Int32", "notificationId">>, <<"String16", "wantAgentBundleName">>,
     <<"String16", "wantAgentAbilityName">>, <<"Bool", "cancelCallBackSelf">>, <<"Bool", "isStandby">>,
     <<"Bool", "isFromComponent">> >>

ContinuousTaskCallbackInfo_ReadFromParcel ==
  << <<"Uint32", "typeId">>, <<"Int32", "creatorUid">>, <<"Int32", "creatorPid">>, <<"Bool", "isFromWebview">>,
     <<"String16", "abilityName">>, <<"Bool", "isBatchApi">>, <<"Vector", "typeIds">>, <<"Int32", "abilityId">>,
     <<"Uint64", "tokenId">>, <<"Int32", "continuousTaskId">>, <<"Int32", "cancelReason">>,
     <<"Int32", "detailedCancelReason">>, <<"Bool", "suspendState">>, <<"Int32", "suspendReason">>,
     <<"Bool", "isByRequestObject">>, <<"String16", "bundleName">>, <<"Int32", "userId">>, <<"Int32", "appIndex">>,
     <<"Vector", "backgroundSubModes">>, <<"Int32", "notificationId">>, <<"String16", "wantAgentBundleName">>,
     <<"String16", "wantAgentAbilityName">>, <<"Bool", "cancelCallBackSelf">>, <<"Bool", "isStandby">>,
     <<"Bool", "isFromComponent">> >>

ProgressInfo_Marshalling ==
  << <<"String16", "title">>, <<"String16", "fileName">>, <<"Int32", "progressValue">>, <<"Bool", "isMute">> >>

ProgressInfo_ReadFromParcel ==
  << <<"String16", "title">>, <<"String16", "fileName">>, <<"Int32", "progressValue">>, <<"Bool", "isMute">> >>

DataTransferProgress_Marshalling ==
  << <<"Int32", "continuousTaskId">>, <<"Optional", "wantAgent">>, <<"Optional", "progressInfo">> >>

DataTransferProgress_ReadFromParcel ==
  << <<"Int32", "continuousTaskId">>, <<"Optional", "wantAgent">>, <<"Optional", "progressInfo">> >>

BackgroundTaskStateInfo_Marshalling ==
  << <<"Int32", "userId">>, <<"String", "bundleName">>, <<"Int32", "appIndex">>, <<"Int32", "authResult">> >>

BackgroundTaskStateInfo_ReadFromParcel ==
  << <<"Int32", "userId">>, <<"String", "bundleName">>, <<"Int32", "appIndex">>, <<"Int32", "authResult">> >>

DelaySuspendInfo_Marshalling == << <<"Int32", "requestId">>, <<"Int32", "actualDelayTime">> >>

DelaySuspendInfo_ReadFromParcel == << <<"Int32", "requestId">>, <<"Int32", "actualDelayTime">> >>

EfficiencyResourceInfo_Marshalling ==
  << <<"Uint32", "resourceNumber">>, <<"Bool", "isApply">>, <<"Uint32", "timeOut">>, <<"String", "reason">>,
     <<"Bool", "isPersist">>, <<"Bool", "isProcess">>, <<"Int32", "uid">>, <<"Int32", "pid">>, <<"Int32", "cpuLevel">> >>

EfficiencyResourceInfo_ReadFromParcel ==
  << <<"Uint32", "resourceNumber">>, <<"Bool", "isApply">>, <<"Uint32", "timeOut">>, <<"String", "reason">>,
     <<"Bool", "isPersist">>, <<"Bool", "isProcess">>, <<"Int32", "uid">>, <<"Int32", "pid">>, <<"Int32", "cpuLevel">> >>

ResourceCallbackInfo_Marshalling ==
  << <<"Int32", "uid">>, <<"Int32", "pid">>, <<"Uint32", "resourceNumber">>, <<"String", "bundleName">>,
     <<"Int32", "cpuLevel">> >>

ResourceCallbackInfo_ReadFromParcel ==
  << <<"Int32", "uid">>, <<"Int32", "pid">>, <<"Uint32", "resourceNumber">>, <<"String", "bundleName">>,
     <<"Int32", "cpuLevel">> >>

TransientTaskAppInfo_Marshalling == << <<"String16", "packageName">>, <<"Int32", "uid">>, <<"Int32", "pid">> >>

\* The name is read without a check.
TransientTaskAppInfo_ReadFromParcel == << <<"Unchecked16", "packageName">>, <<"Int32", "uid">>, <<"Int32", "pid">> >>

\* What each interface writes and reads.
Layouts ==
  [ContinuousTaskParam |->
     [write |-> ContinuousTaskParam_Marshalling \o ContinuousTaskParam_MarshallingNewApi,
      read |-> ContinuousTaskParam_ReadFromParcel \o ContinuousTaskParam_ReadFromParcelNewApi],
   ContinuousTaskParamForInner |->
     [write |-> ContinuousTaskParamForInner_Marshalling, read |-> ContinuousTaskParamForInner_ReadFromParcel],
   ContinuousTaskRequest |-> [write |-> ContinuousTaskRequest_Marshalling, read |-> ContinuousTaskRequest_ReadFromParcel],
   ContinuousTaskInfo |-> [write |-> ContinuousTaskInfo_Marshalling, read |-> ContinuousTaskInfo_ReadFromParcel],
   ContinuousTaskCallbackInfo |->
     [write |-> ContinuousTaskCallbackInfo_Marshalling, read |-> ContinuousTaskCallbackInfo_ReadFromParcel],
   ProgressInfo |-> [write |-> ProgressInfo_Marshalling, read |-> ProgressInfo_ReadFromParcel],
   DataTransferProgress |-> [write |-> DataTransferProgress_Marshalling, read |-> DataTransferProgress_ReadFromParcel],
   BackgroundTaskStateInfo |->
     [write |-> BackgroundTaskStateInfo_Marshalling, read |-> BackgroundTaskStateInfo_ReadFromParcel],
   DelaySuspendInfo |-> [write |-> DelaySuspendInfo_Marshalling, read |-> DelaySuspendInfo_ReadFromParcel],
   EfficiencyResourceInfo |->
     [write |-> EfficiencyResourceInfo_Marshalling, read |-> EfficiencyResourceInfo_ReadFromParcel],
   ResourceCallbackInfo |-> [write |-> ResourceCallbackInfo_Marshalling, read |-> ResourceCallbackInfo_ReadFromParcel],
   TransientTaskAppInfo |-> [write |-> TransientTaskAppInfo_Marshalling, read |-> TransientTaskAppInfo_ReadFromParcel]]

------------------------------------------------------------------------------
(* Objects: a function from the fields' names to strings, "" where the      *)
(* field has the value a new object has, and what the parcel of one holds.  *)

Names(layout) == {layout[i][2] : i \in DOMAIN layout}
Default(layout) == [f \in Names(layout) |-> ""]

Item(kind, value) == [kind |-> kind, value |-> value]

\* The writes of one field.
Written(field, obj) ==
  LET value == obj[field[2]]
  IN CASE field[1] = "Optional" /\ value = "" -> <<Item("Bool", "")>>
       [] field[1] = "Optional" /\ value # "" -> <<Item("Bool", "true"), Item("Parcelable", value)>>
       [] field[1] \in DOMAIN obj /\ obj[field[1]] = "" -> <<>>
       [] field[1] \in DOMAIN obj /\ obj[field[1]] # "" -> <<Item("Vector", value)>>
       [] OTHER -> <<Item(field[1], value)>>

Encode(layout, obj) == FoldLeft(LAMBDA parcel, field : parcel \o Written(field, obj), <<>>, layout)

\* The read of one item of a kind: it fails at the end of the parcel and on
\* what was written as something else.
ReadItem(st, kind, name) ==
  IF st.rest # <<>> /\ Head(st.rest).kind = kind
  THEN [st EXCEPT !.rest = Tail(@), !.obj[name] = Head(st.rest).value]
  ELSE [st EXCEPT !.ok = FALSE]

\* The reads of one field; the flag of an optional object is not checked.
Read(st, field) ==
  LET kind == field[1]
      name == field[2]
      flagged == st.rest # <<>> /\ Head(st.rest) = Item("Bool", "true")
      rest == IF st.rest = <<>> THEN <<>> ELSE Tail(st.rest)
  IN CASE ~st.ok -> st
       [] st.ok /\ kind = "Optional" ->
            IF flagged THEN ReadItem([st EXCEPT !.rest = rest], "Parcelable", name) ELSE [st EXCEPT !.rest = rest]
       [] st.ok /\ kind \in DOMAIN st.obj ->
            IF st.obj[kind] = "" THEN st ELSE ReadItem(st, "Vector", name)
       [] st.ok /\ kind = "Unchecked16" -> [ReadItem(st, "String16", name) EXCEPT !.ok = TRUE]
       [] OTHER -> ReadItem(st, kind, name)

Decode(layout, parcel) ==
  FoldLeft(Read, [ok |-> TRUE, rest |-> parcel, obj |-> Default(layout)], layout)

------------------------------------------------------------------------------
VARIABLES
  what,    \* which object is sent
  given,   \* the object
  packed,  \* the parcel, once it is sent
  taken    \* what the receiver has: "pending", "null", or the object

parcelVars == <<what, given, packed, taken>>

\* Objects with all, none, one and all but one of their fields set.
Objects(layout) ==
  LET full == [f \in Names(layout) |-> f]
      none == Default(layout)
  IN {full, none} \cup {[full EXCEPT ![f] = ""] : f \in Names(layout)}
       \cup {[none EXCEPT ![f] = f] : f \in Names(layout)}

NoObject == [none |-> "none"]
Null == [null |-> "null"]
Unsent == <<Item("Unsent", "")>>

ParcelsInit ==
  /\ what \in DOMAIN Layouts
  /\ given \in Objects(Layouts[what].write)
  /\ packed = Unsent
  /\ taken = NoObject

\* Marshalling into a parcel that has room for so many items: the first
\* failed write ends it, and the caller sends nothing.
Marshal(room) ==
  LET parcel == Encode(Layouts[what].write, given)
  IN /\ packed = Unsent /\ taken = NoObject
     /\ packed' = IF Len(parcel) <= room THEN parcel ELSE Unsent
     /\ taken' = IF Len(parcel) <= room THEN taken ELSE Null
     /\ UNCHANGED <<what, given>>

\* Unmarshalling: an object that is not read to its end is deleted.
Unmarshalling ==
  LET st == Decode(Layouts[what].read, packed)
  IN /\ packed # Unsent /\ taken = NoObject
     /\ taken' = IF st.ok THEN st.obj ELSE Null
     /\ UNCHANGED <<what, given, packed>>

\* What of an object is written at all.
Sent(obj) ==
  IF what = "ContinuousTaskParam" /\ obj["isBatchApi"] = "" THEN [obj EXCEPT !["bgModeIds"] = ""] ELSE obj

(***************************************************************************)
(* What the receiver gets is what the sender had: for every object, every  *)
(* field read back is the one that was written, and an object whose parcel *)
(* did not hold all of it is never delivered in part.  Only the modes of a *)
(* request that is not a batch request are left behind: its reader uses    *)
(* bgModeId.  (continuous_task_param.cpp:24-308 and the other parcelables) *)
(***************************************************************************)
RoundTrip ==
  /\ taken \notin {NoObject, Null} => taken = Sent(given)
  /\ packed # Unsent => taken # Null
=============================================================================
