----------------------------- MODULE ItemTable ------------------------------
(***************************************************************************)
(* The panels of the "Add Item" dialog, one per item type, read off their  *)
(* files.  They share the steps of ItemForms and differ in                 *)
(*                                                                         *)
(*   needs   - the fields that must be filled besides the host,            *)
(*   shows   - the settings on display beyond history, trends and          *)
(*             description, which every panel has and sends: delay, units, *)
(*             custom intervals, timeout, the Enabled and the team switch, *)
(*             and "options", those of the item type,                      *)
(*   sends   - the settings the request carries,                           *)
(*   keeps   - those that survive a success,                               *)
(*   text    - the value type is a text type from the start,               *)
(*   trigger - "value": the common toggle, whose condition follows from    *)
(*             the value type; "own": a switch of its own; "always": the   *)
(*             server's default creates one, and nothing shows it,         *)
(*   many    - what the request carries in bulk mode, <<>> where the panel *)
(*             has none.                                                   *)
(***************************************************************************)

Panel(needs, shows, sends, text) ==
  [needs |-> needs, shows |-> shows, sends |-> sends, keeps |-> {}, text |-> text,
   trigger |-> "value", many |-> <<>>]
NoPanel == Panel({}, {}, {}, FALSE)

Setting == {"delay", "units", "intervals", "timeout", "enabled", "team", "options"}

-----------------------------------------------------------------------------
AgentItemFields == Setting \ {"options"}
AgentItemPanel ==
  [Panel({"name", "key"}, AgentItemFields, AgentItemFields, FALSE) EXCEPT
     !.many = <<{"delay", "units", "intervals", "team"}>>]
HttpItemFields == Setting \ {"intervals"}
HttpItemPanel ==
  [Panel({"name", "url"}, HttpItemFields, HttpItemFields, TRUE) EXCEPT
     !.keeps = {"options", "timeout", "enabled"},
     !.many = <<{"timeout", "team"}>>]
ScriptFields == Setting
ScriptPanel ==
  [Panel({"script"}, ScriptFields, Setting, TRUE) EXCEPT
     !.keeps = {"options"},
     !.many = <<{"options", "team"}>>]

(* Services, processes and files *)
ServicePanel == [Panel({}, {"delay", "options"}, {"delay", "options"}, FALSE) EXCEPT !.keeps = {"options"}]
AgentServicePanel == [Panel({"agentName"}, {"delay"}, {"delay"}, FALSE) EXCEPT !.trigger = "always"]
WindowsServicePanel == [Panel({"serviceName"}, {"delay"}, {"delay"}, FALSE) EXCEPT !.trigger = "own"]
ProcessPanel ==
  [Panel({"processName"}, {"delay", "options"}, {"delay", "options"}, FALSE) EXCEPT !.trigger = "own"]
FileWatchFields == {"delay", "options"}
FileWatchPanel ==
  [Panel({"filePath"}, FileWatchFields, {"delay", "options"}, FALSE) EXCEPT
     !.keeps = {"options"}, !.trigger = "own"]

(* Databases: over ODBC, or by a plugin of the agent, whose schedule is fixed *)
OdbcFields == Setting \ {"team"}
OdbcPanel == Panel({"dsn", "dbDesc", "sqlQuery"}, OdbcFields, Setting \ {"team"}, FALSE)
Agent2Fields == {"options"}
Agent2Panel == [Panel({"connString"}, Agent2Fields, {"options"}, FALSE) EXCEPT !.keeps = {"options"}]

SnmpFields == {"delay", "units", "enabled", "options"}
SnmpPanel == [Panel({"name", "oid"}, SnmpFields, SnmpFields, FALSE) EXCEPT !.keeps = {"options"}]
SnmpTrapPanel == Panel({"name"}, {"enabled", "options"}, {"enabled", "options"}, TRUE)

(* Types of Zabbix without fields of much consequence *)
InternalItemPanel == Panel({"name", "key"}, {"delay", "enabled"}, {"delay", "enabled"}, FALSE)
TrapperItemPanel == Panel({"name", "key"}, {"enabled"}, {"enabled"}, TRUE)
ExternalItemPanel == Panel({"name", "key"}, {"delay", "enabled"}, {"delay", "enabled"}, TRUE)
IpmiItemPanel == Panel({"sensor"}, {"delay", "enabled"}, {"delay", "enabled"}, FALSE)
SshFields == {"delay", "enabled", "options"}
SshItemPanel == Panel({"name", "params"}, SshFields, SshFields, TRUE)
TelnetItemPanel ==
  Panel({"name", "params"}, {"delay", "enabled", "options"}, {"delay", "enabled", "options"}, TRUE)
JmxItemPanel ==
  Panel({"name", "key"}, {"delay", "enabled", "options"}, {"delay", "enabled", "options"}, FALSE)
CalculatedItemPanel ==
  Panel({"name", "key", "formula"}, {"delay", "enabled"}, {"delay", "enabled"}, FALSE)
DependentItemPanel == Panel({"name", "key", "master"}, {"enabled"}, {"enabled"}, TRUE)
ZabbixScriptFields == {"delay", "timeout", "enabled", "options"}
ZabbixScriptItemPanel ==
  Panel({"name", "key", "script"}, ZabbixScriptFields, ZabbixScriptFields, TRUE)
BrowserFields == {"delay", "timeout", "enabled", "options"}
BrowserItemPanel == Panel({"name", "key", "script"}, BrowserFields, BrowserFields, TRUE)

ItemPanels ==
  {AgentItemPanel, HttpItemPanel, ScriptPanel, ServicePanel, AgentServicePanel,
   WindowsServicePanel, ProcessPanel, FileWatchPanel, OdbcPanel, Agent2Panel, SnmpPanel,
   SnmpTrapPanel, InternalItemPanel, TrapperItemPanel, ExternalItemPanel, IpmiItemPanel,
   SshItemPanel, TelnetItemPanel, JmxItemPanel, CalculatedItemPanel, DependentItemPanel,
   ZabbixScriptItemPanel, BrowserItemPanel}
=============================================================================
