------------------------------- MODULE BcXml -------------------------------
(***************************************************************************)
(* The XML bodies of the Baichuan protocol and how serde and quick_xml     *)
(* write and read them (src/baichuan/bc/xml.rs).  An element type is a     *)
(* record from the way a field behaves to the fields that behave so:       *)
(*                                                                         *)
(*   text, number, inner, list   always written, the default when absent   *)
(*   optText, optNumber, ...     Option, left out when None                *)
(*   bareText, bareInner         Option, written empty when None           *)
(*   skipText, skipNumber        left out when empty or zero, the default  *)
(*                               when absent                               *)
(*   mustText, mustNumber, ...   an error when absent                      *)
(*                                                                         *)
(* An XML error is not confined to its message: de.rs 231-244 turns it     *)
(* into an error of the codec, which ends the camera's connection.         *)
(***************************************************************************)
EXTENDS Naturals, FiniteSets

\* The values a field of each kind takes, "none" being Option::None
Values(kind) ==
    CASE kind \in {"text", "skipText", "mustText"} -> {"", "v"}
      [] kind \in {"number", "skipNumber", "mustNumber"} -> {"0", "n"}
      [] kind \in {"inner", "mustInner"} -> {"struct"}
      [] kind \in {"list", "mustList"} -> {"nil", "items"}
      [] kind \in {"optText", "bareText"} -> {"none", "", "v"}
      [] kind \in {"optNumber", "bareNumber"} -> {"none", "0", "n"}
      [] kind \in {"optInner", "bareInner"} -> {"none", "struct"}
      [] kind = "optList" -> {"none", "nil", "items"}

Optional == {"optText", "optNumber", "optInner", "optList"}
Bare == {"bareText", "bareNumber", "bareInner"}
Required == {"mustText", "mustNumber", "mustInner", "mustList"}
Numeric == {"number", "skipNumber", "mustNumber", "optNumber", "bareNumber"}
Lists == {"list", "mustList", "optList"}
Inner == {"inner", "mustInner", "optInner", "bareInner"}

\* What stands in the document: nothing, an empty element, or one with content.
\* A list writes one element per item, so an empty list writes none.
Write(kind, v) ==
    CASE v = "none" -> IF kind \in Bare THEN "empty" ELSE "absent"
      [] v = "nil" -> "absent"
      [] v = "" -> IF kind = "skipText" THEN "absent" ELSE "empty"
      [] v = "0" -> IF kind = "skipNumber" THEN "absent" ELSE "0"
      [] OTHER -> v

\* What the reader makes of it; every field of an inner element has a default
Read(kind, doc) ==
    CASE doc = "absent" ->
           (CASE kind \in Optional \union Bare -> "none"
              [] kind \in Required -> "error"
              [] kind \in {"number", "skipNumber"} -> "0"
              [] kind = "list" -> "nil"
              [] kind = "inner" -> "struct"
              [] OTHER -> "")
      [] doc = "empty" ->
           (CASE kind \in Numeric -> "error"
              [] kind \in Inner -> "struct"
              [] OTHER -> "")
      [] OTHER -> doc

\* The fields of an element type with their kinds
Fields(e) == UNION {{<<k, f>> : f \in e[k]} : k \in DOMAIN e}

\* The fields a setting that is read, changed and written back gains when the
\* camera's firmware does not send them
Invented(e) == {f[2] : f \in {g \in Fields(e) : Write(g[1], Read(g[1], "absent")) # "absent"}}

\* encode_certchain_newlines: only inside certChain, so that the camera's parser,
\* which condenses raw white space, keeps the lines of the certificate
encode_certchain_newlines(field, c) ==
    IF field = "certChain" /\ c \in {"LF", "CR"} THEN "entity" ELSE c
CameraCondenses(c) == IF c \in {"LF", "CR"} THEN "space" ELSE c
CameraReads(c) == IF c = "entity" THEN "newline" ELSE CameraCondenses(c)

-----------------------------------------------------------------------------
Body ==
    [optInner |-> {"Encryption", "LoginUser", "LoginNet", "DeviceInfo", "VersionInfo",
                   "Preview", "SystemGeneral", "Norm", "Dst", "LedState", "TalkConfig",
                   "rfAlarmCfg", "TalkAbility", "AlarmEventList", "PtzControl",
                   "FloodlightManual", "FloodlightStatusList", "PtzPreset", "BatteryList",
                   "BatteryInfo", "AbilityInfo", "PushInfo", "LinkType", "Snap",
                   "StreamInfoList", "Uid", "FloodlightTask", "PtzZoomFocus",
                   "StartZoomFocus", "Support", "audioPlayInfo", "ServerPort", "HttpPort",
                   "HttpsPort", "RtspPort", "RtmpPort", "OnvifPort", "Email", "EmailTask",
                   "UserList"}]

Encryption ==
    [text |-> {"@version", "type", "nonce"},
     optInner |-> {"authTypeList", "ECDHE"},
     optText |-> {"sigVer"}]

AuthTypeList == [list |-> {"authType"}]

Ecdhe == [text |-> {"publicKeyAlgo", "publicKey", "publicKeySign"}, number |-> {"iterations"}]

LoginUser ==
    [text |-> {"@version"},
     optText |-> {"authType", "clientType", "publicKey", "tokenKey", "cipherContent",
                  "certChain"},
     skipText |-> {"userName", "password"},
     skipNumber |-> {"userVer"},
     optInner |-> {"AuthInfo"}]

AuthInfo == [text |-> {"authCode"}, optText |-> {"phoneModel"}]

LoginNet == [text |-> {"@version", "type"}, number |-> {"udpPort"}]

DeviceInfo == [bareText |-> {"@version"}, bareInner |-> {"resolution"}]

VersionInfo ==
    [text |-> {"name", "serialNumber", "buildDay", "hardwareVersion", "cfgVersion",
               "firmwareVersion", "detail"},
     optText |-> {"type"}]

Resolution == [text |-> {"resolutionName"}, number |-> {"width", "height"}]

Preview ==
    [text |-> {"@version"},
     number |-> {"channelId", "handle"},
     optText |-> {"streamType"}]

Extension ==
    [text |-> {"@version"},
     optNumber |-> {"binaryData", "channelId", "rfId", "checkPos", "checkValue",
                    "encryptLen"},
     optText |-> {"userName", "token"}]

SystemGeneral ==
    [text |-> {"@version"},
     optNumber |-> {"timeZone", "year", "month", "day", "hour", "minute", "second",
                    "timeFormat"},
     optText |-> {"osdFormat", "language", "deviceName"}]

Norm == [text |-> {"@version", "norm"}]

Dst ==
    [text |-> {"@version"},
     optNumber |-> {"enable", "offset", "startMonth", "startWeekIndex", "startHour",
                    "startMinute", "startSecond", "endMonth", "endWeekIndex", "endHour",
                    "endMinute", "endSecond"},
     optText |-> {"startWeekday", "endWeekday"}]

LedState ==
    [text |-> {"@version", "state", "lightState"},
     number |-> {"channelId"},
     optNumber |-> {"ledVersion"}]

FloodlightStatus == [number |-> {"channel", "status"}]

FloodlightStatusList == [text |-> {"@version"}, list |-> {"FloodlightStatus"}]

FloodlightManual == [text |-> {"@version"}, number |-> {"channelId", "status", "duration"}]

RfAlarmCfg ==
    [text |-> {"@version"},
     optNumber |-> {"rfID", "sensitivity", "sensiValue", "reduceFalseAlarm", "interval",
                    "maxAlarmTime", "intervalUseRange", "intervalSecMin", "intervalSecMax"},
     number |-> {"enable"},
     optInner |-> {"timeBlockList", "alarmHandle"}]

TimeBlockList == [list |-> {"timeBlock"}]

TimeBlock == [number |-> {"enable", "beginHour", "endHour"}, text |-> {"weekDay"}]

AlarmHandle == [list |-> {"item"}]

AlarmHandleItem == [number |-> {"channel"}, text |-> {"handleType"}]

TalkConfig ==
    [text |-> {"@version", "duplex", "audioStreamMode"},
     number |-> {"channelId"},
     inner |-> {"audioConfig"}]

AudioConfig ==
    [optNumber |-> {"priority"},
     text |-> {"audioType", "soundTrack"},
     number |-> {"sampleRate", "samplePrecision", "lengthPerEncoder"}]

TalkAbility ==
    [text |-> {"@version"},
     list |-> {"duplexList", "audioStreamModeList", "audioConfigList"}]

DuplexList == [text |-> {"duplex"}]

AudioStreamModeList == [text |-> {"audioStreamMode"}]

AudioConfigList == [inner |-> {"audioConfig"}]

AlarmEventList == [text |-> {"@version"}, list |-> {"AlarmEvent"}]

AlarmEvent ==
    [text |-> {"@version", "status"},
     number |-> {"channelId", "recording", "timeStamp"},
     optText |-> {"AItype"}]

PtzControl == [text |-> {"@version", "command"}, number |-> {"channelId", "speed"}]

PtzPreset == [text |-> {"@version"}, number |-> {"channelId"}, inner |-> {"presetList"}]

PresetList == [list |-> {"preset"}]

Preset == [number |-> {"id"}, optText |-> {"name"}, text |-> {"command"}]

BatteryList == [text |-> {"@version"}, list |-> {"BatteryInfo"}]

BatteryInfo ==
    [number |-> {"channelId", "voltage", "current", "temperature", "batteryPercent",
                 "lowPower", "batteryVersion"},
     text |-> {"chargeStatus", "adapterStatus"}]

AbilityInfo ==
    [text |-> {"userName"},
     optInner |-> {"system", "network", "alarm", "image", "video", "security", "replay",
                   "PTZ", "IO", "streaming"}]

AbilityInfoToken == [list |-> {"subModule"}]

AbilityInfoSubModule == [optNumber |-> {"channelId"}, text |-> {"abilityValue"}]

PushInfo == [text |-> {"token", "phoneType", "clientID"}]

LinkType == [text |-> {"type"}]

Snap ==
    [text |-> {"@version"},
     number |-> {"channelId", "time"},
     optNumber |-> {"logicChannel", "fullFrame", "pictureSize"},
     optText |-> {"streamType", "fileName"}]

StreamInfoList == [list |-> {"StreamInfo"}]

StreamInfo == [number |-> {"channelBits"}, list |-> {"encodeTable"}]

EncodeTable ==
    [text |-> {"type", "framerateTable", "bitrateTable"},
     inner |-> {"resolution"},
     number |-> {"defaultFramerate", "defaultBitrate"}]

StreamResolution == [number |-> {"width", "height"}]

Uid == [text |-> {"@version", "uid"}]

FloodlightTask ==
    [text |-> {"@version", "detectType"},
     number |-> {"channel", "alarmMode", "enable", "lastAlarmMode", "preview_auto",
                 "duration", "brightness_cur"},
     optNumber |-> {"brightness_max", "brightness_min"},
     inner |-> {"schedule", "lightSensThreshold", "FloodlightScheduleList",
                "nightLongViewMultiBrightness"}]

ScheduleFloodLight ==
    [number |-> {"startHour", "endHour"},
     optNumber |-> {"startMin", "endMin"}]

LightSensThreshold ==
    [optNumber |-> {"min", "max", "lightDef", "darkDef"},
     number |-> {"lightCur", "darkCur"}]

FloodlightScheduleList == [number |-> {"maxNum"}]

NightLongViewMultiBrightness ==
    [number |-> {"enable"},
     inner |-> {"alarmBrightness", "alarmDelay"}]

AlarmBrightness == [optNumber |-> {"min", "max", "def"}, number |-> {"cur"}]

AlarmDelay == [optNumber |-> {"min", "max", "def"}, number |-> {"cur"}]

PtzZoomFocus == [text |-> {"@version"}, number |-> {"channelId"}, inner |-> {"zoom", "focus"}]

StartZoomFocus ==
    [text |-> {"@version"},
     number |-> {"channelId", "movePos"},
     mustText |-> {"command"}]

HelperPosition == [number |-> {"maxPos", "minPos", "curPos"}]

\* The numbers of Support from mobComVersion on
SupportSystem ==
    {"mobComVersion", "ExportImport", "languageVer", "videoStandard", "syncTime", "netPort",
     "nasVersion", "needReboot", "reboot", "audioCfg", "networkDiagnosis", "heightDiffAdjust",
     "upgrade", "gps", "powerSavingCfg", "loginLocked", "viewPlan", "previewReplayLimit",
     "IOTLink", "IOTLinkActionMax", "recordCfg", "largeBattery"}

Support ==
    [text |-> {"@version"},
     optNumber |-> {"IOInputPortNum", "IOOutputPortNum", "diskNum", "channelNum", "audioNum",
                    "ptzCfg", "b485", "autoUpdate", "pushAlarm", "ftp", "ftpTest", "email",
                    "wifi", "record", "wifiTest", "rtsp", "onvif", "audioTalk", "rfVersion",
                    "rtmp", "noExternStream", "timeFormat", "ddnsVersion", "emailVersion",
                    "pushVersion", "pushType", "audioAlarm", "apMode", "cloudVersion",
                    "replayVersion"} \cup SupportSystem,
     optText |-> {"ptzMode"},
     optInner |-> {"smartHome"},
     list |-> {"item"}]

SmartHome == [number |-> {"version"}, list |-> {"item"}]

SmartHomeItem == [text |-> {"name"}, number |-> {"ver"}]

SupportItem ==
    [number |-> {"chnID"},
     optNumber |-> {"ptzType", "rfCfg", "noAudio", "autoFocus", "videoClip", "battery",
                    "ispCfg", "osdCfg", "batAnalysis", "dynamicReso", "audioVersion",
                    "ledCtrl", "ptzControl", "newIspCfg", "ptzPreset", "ptzPatrol",
                    "ptzTattern", "autoPt", "h264Profile", "motion", "aitype", "aiAnimalType",
                    "timelapse", "snap", "encCtrl", "zfBacklash", "IOTLinkAbility",
                    "ipcAudioTalk", "binoCfg", "thumbnail"}]

AudioPlayInfo == [number |-> {"channelId", "playMode", "playDuration", "playTimes", "onOff"}]

ServerPort == [text |-> {"@version"}, number |-> {"serverPort"}, optNumber |-> {"enable"}]

HttpPort == [text |-> {"@version"}, number |-> {"httpPort"}, optNumber |-> {"enable"}]

HttpsPort == [text |-> {"@version"}, number |-> {"httpsPort"}, optNumber |-> {"enable"}]

RtspPort == [text |-> {"@version"}, number |-> {"rtspPort"}, optNumber |-> {"enable"}]

RtmpPort == [text |-> {"@version"}, number |-> {"rtmpPort"}, optNumber |-> {"enable"}]

OnvifPort == [text |-> {"@version"}, number |-> {"onvifPort"}, optNumber |-> {"enable"}]

Email ==
    [text |-> {"@version", "smtpServer", "userName", "password", "address1", "address2",
               "address3", "sendNickname", "textType"},
     number |-> {"smtpPort", "attachment", "ssl", "interval"},
     optText |-> {"attachmentType"},
     optNumber |-> {"senderMaxLen"}]

EmailTask ==
    [text |-> {"@version"},
     number |-> {"channelId", "enable"},
     optInner |-> {"ScheduleList"}]

ScheduleList == [inner |-> {"Schedule"}]

Schedule == [text |-> {"alarmType"}, inner |-> {"timeBlockList"}]

UserList == [text |-> {"@version"}, optList |-> {"User"}]

\* Defect: userId is an Option without skip_serializing_if.
UserBare ==
    [text |-> {"userName", "userSetState"}, optText |-> {"password"}, number |-> {"userLevel"},
     bareNumber |-> {"userId"}, optNumber |-> {"loginState"}]

User ==
    [text |-> {"userName", "userSetState"},
     optText |-> {"password"},
     optNumber |-> {"userId", "loginState"},
     number |-> {"userLevel"}]

-----------------------------------------------------------------------------
\* Elements the relay only ever writes, and those it only ever reads
OnlySent == {"StartZoomFocus"}
OnlyReceived == {"DeviceInfo"}

BcElements ==
    [Body |-> Body, Encryption |-> Encryption, AuthTypeList |-> AuthTypeList, Ecdhe |->
     Ecdhe, LoginUser |-> LoginUser, AuthInfo |-> AuthInfo, LoginNet |-> LoginNet,
     DeviceInfo |-> DeviceInfo, VersionInfo |-> VersionInfo, Resolution |-> Resolution,
     Preview |-> Preview, Extension |-> Extension, SystemGeneral |-> SystemGeneral, Norm |->
     Norm, Dst |-> Dst, LedState |-> LedState, FloodlightStatus |-> FloodlightStatus,
     FloodlightStatusList |-> FloodlightStatusList, FloodlightManual |-> FloodlightManual,
     RfAlarmCfg |-> RfAlarmCfg, TimeBlockList |-> TimeBlockList, TimeBlock |-> TimeBlock,
     AlarmHandle |-> AlarmHandle, AlarmHandleItem |-> AlarmHandleItem, TalkConfig |->
     TalkConfig, AudioConfig |-> AudioConfig, TalkAbility |-> TalkAbility, DuplexList |->
     DuplexList, AudioStreamModeList |-> AudioStreamModeList, AudioConfigList |->
     AudioConfigList, AlarmEventList |-> AlarmEventList, AlarmEvent |-> AlarmEvent,
     PtzControl |-> PtzControl, PtzPreset |-> PtzPreset, PresetList |-> PresetList, Preset
     |-> Preset, BatteryList |-> BatteryList, BatteryInfo |-> BatteryInfo, AbilityInfo |->
     AbilityInfo, AbilityInfoToken |-> AbilityInfoToken, AbilityInfoSubModule |->
     AbilityInfoSubModule, PushInfo |-> PushInfo, LinkType |-> LinkType, Snap |-> Snap,
     StreamInfoList |-> StreamInfoList, StreamInfo |-> StreamInfo, EncodeTable |->
     EncodeTable, StreamResolution |-> StreamResolution, Uid |-> Uid, FloodlightTask |->
     FloodlightTask, ScheduleFloodLight |-> ScheduleFloodLight, LightSensThreshold |->
     LightSensThreshold, FloodlightScheduleList |-> FloodlightScheduleList,
     NightLongViewMultiBrightness |-> NightLongViewMultiBrightness, AlarmBrightness |->
     AlarmBrightness, AlarmDelay |-> AlarmDelay, PtzZoomFocus |-> PtzZoomFocus,
     StartZoomFocus |-> StartZoomFocus, HelperPosition |-> HelperPosition, Support |->
     Support, SmartHome |-> SmartHome, SmartHomeItem |-> SmartHomeItem, SupportItem |->
     SupportItem, AudioPlayInfo |-> AudioPlayInfo, ServerPort |-> ServerPort, HttpPort |->
     HttpPort, HttpsPort |-> HttpsPort, RtspPort |-> RtspPort, RtmpPort |-> RtmpPort,
     OnvifPort |-> OnvifPort, Email |-> Email, EmailTask |-> EmailTask, ScheduleList |->
     ScheduleList, Schedule |-> Schedule, UserList |-> UserList, User |-> User]

=============================================================================
