------------------------------- MODULE Settings -------------------------------
(***************************************************************************)
(* Where an object's settings come from: a .conf file of sections and the  *)
(* command line, combined, handed to the harness, the wrappers and the     *)
(* strategy, each of which takes the ones it knows.                        *)
(*                                                                         *)
(* A value is the text of it.  A configuration is a function from sections *)
(* to functions from options.                                              *)
(***************************************************************************)
EXTENDS FiniteSets, Functions, Sequences

CONSTANTS ExchangeKeys    \* ALL_EXCHANGE_KEYS

\* Bitstamp's is one of them.
ASSUME SettingsAssumption ==
  /\ "bitstamp_btc_usd" \in ExchangeKeys
  /\ ExchangeKeys \cap {"platform", "strategy", "exchanges"} = {}

NoSettings == <<>>
Setting(option, value) == [o \in {option} |-> value]
\* The values of a that b has none for, and those of b.
Updated(a, b) == [k \in DOMAIN a \cup DOMAIN b |-> IF k \in DOMAIN b THEN b[k] ELSE a[k]]

\* Values: "none" is None; numbers and amounts of money are their text.
Truthy(value) == value \notin {"none", "False", "0"}
ParseConfigurableValue(value) ==
  CASE value = "yes" -> "True" [] value = "no" -> "False" [] OTHER -> value

ParsedItems(items) == [o \in DOMAIN items |-> ParseConfigurableValue(items[o])]

-----------------------------------------------------------------------------
(* The file: a sequence of [name, parent, items]; parent is "" but for a   *)
(* section whose name has a colon.                                         *)

SectionOf(configuration, name) ==
  IF name \in DOMAIN configuration THEN configuration[name] ELSE NoSettings

\* A section replaces what is there of its name, the subsections too.
ReadSection(section, configuration) ==
  Updated(configuration,
    IF section.parent # ""
      THEN Setting(section.parent,
             Updated(SectionOf(configuration, section.parent),
                     Setting(section.name, ParsedItems(section.items))))
      ELSE Setting(section.name, ParsedItems(section.items)))

ParseSections(sections) ==
  LET read[i \in 0..Len(sections)] ==
        IF i = 0 THEN NoSettings ELSE ReadSection(sections[i], read[i - 1])
  IN  read[Len(sections)]

\* "platform" and "strategy" are always there.
FileConfig(sections) ==
  LET read == ParseSections(sections)
      others == Restrict(read, DOMAIN read \ ExchangeKeys)
  IN  Updated([s \in {"platform", "strategy", "exchanges"} |->
                 IF s = "exchanges" THEN Restrict(read, DOMAIN read \cap ExchangeKeys)
                                    ELSE NoSettings],
              others)

-----------------------------------------------------------------------------
(* The command line.  A flag is given or not; that it is not is None, but  *)
(* False for --execute and --builtin.                                      *)

Flag(option, given) ==
  IF given THEN "True" ELSE IF option \in {"execute", "builtin"} THEN "False" ELSE "none"

\* Options the framework doesn't know; without a value one is true.
ExtraStrategyArgs(args) ==
  [o \in DOMAIN args |-> IF args[o] = "bare" THEN "True" ELSE ParseConfigurableValue(args[o])]

CommandLineConfig(flags, tickSleep, args) ==
  [platform |-> [o \in {"execute", "builtin", "heartbeat", "sentry", "emerald", "audit"} |->
                   Flag(o, o \in flags)],
   strategy |-> Updated([tick_sleep |-> ParseConfigurableValue(tickSleep)],
                        ExtraStrategyArgs(args))]

\* A bug: what is in a stays.
DictUpdateOverride_Keep(a, b) == Updated(b, a)
DictUpdateOverride(a, b) ==
  Updated(a, Restrict(b, {k \in DOMAIN b : Truthy(b[k]) \/ k \notin DOMAIN a}))

Combined(file, commandLine) ==
  [file EXCEPT !.platform = DictUpdateOverride(@, commandLine.platform),
               !.strategy = DictUpdateOverride(@, commandLine.strategy)]

-----------------------------------------------------------------------------
(* The objects.                                                            *)

InitConfigurable(default, option, configuration) ==
  IF option \in DOMAIN configuration /\ configuration[option] # "none"
    THEN configuration[option] ELSE default

HarnessDefaults ==
  [execute |-> "False", emerald |-> "False", audit |-> "False", audit_tick |-> "100"]
Harness(configuration) ==
  [o \in DOMAIN HarnessDefaults |->
     InitConfigurable(HarnessDefaults[o], o, configuration.platform)]

\* What every strategy has, and what two of them have of their own.
StrategyDefaults == [tick_sleep |-> "5"]
SimpleMarketMakingDefaults == [spread |-> "0.01", base_volume |-> "BTC 0.005"]
LinearDefaults ==
  [spread |-> "0.10", base_volume |-> "BTC 0.005", max_position |-> "BTC 0.5",
   fundamental_depth |-> "BTC 5", use_variable_sizing |-> "False",
   variable_sizing_spread |-> "0.03", variable_sizing_multiplier |-> "2",
   slide_jump |-> "USD 0.01", slide_ignore_volume |-> "BTC 0.00000001"]

Strategy(own, configuration) ==
  LET defaults == Updated(StrategyDefaults, own)
  IN  [o \in DOMAIN defaults |-> InitConfigurable(defaults[o], o, configuration.strategy)]

\* The weights are a subsection; without them the strategy does not start.
MidpointWeights(configuration) == SectionOf(configuration.strategy, "midpoint_weights")

\* ExchangeAPIWrapper.configure
UseCachedOrderbook(key, configuration) ==
  LET own == SectionOf(configuration.exchanges, key)
  IN  CASE "emerald" \in DOMAIN own -> own["emerald"]
        [] "emerald" \notin DOMAIN own /\ "emerald" \in DOMAIN configuration.platform ->
             configuration.platform["emerald"]
        [] OTHER -> "False"

WrapperDefaults ==
  [market_order_fee |-> "0.0025", limit_order_fee |-> "0.0025", max_tick_speed |-> "2"]
Wrapper(key, configuration) ==
  Updated([use_cached_orderbook |-> UseCachedOrderbook(key, configuration)],
          [o \in DOMAIN WrapperDefaults |->
             InitConfigurable(WrapperDefaults[o], o, SectionOf(configuration.exchanges, key))])
=============================================================================
