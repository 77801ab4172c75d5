------------------------------- MODULE Ingress ------------------------------
(***************************************************************************)
(* The strict boundary between bytes and authority                         *)
(* (taskmesh/src/ingress.rs): a bounded scan of the JSON text against the  *)
(* shape it should have, then the decoding, then the checks of the         *)
(* dispatch tag and of the contract.                                       *)
(*                                                                         *)
(* A JSON text is its length and its value tree; an object is the sequence *)
(* of its members, so that a repeated key is there to be seen.             *)
(***************************************************************************)
EXTENDS Plans

CONSTANTS
  Tags,         \* blocking_dispatch: "absent", "null", "shared_blocking" or a stack size
  Defects,      \* what a text may have wrong
  IngressLimits, \* StrictIngressLimits
  Declarations  \* deployments: [topology, budget, classes, substrates, limits]

VARIABLE parsed   \* the task document handled, and the answer

ingressVars == <<planVars, parsed>>

scalar(v) == [t |-> "scalar", v |-> v]
object(members) == [t |-> "object", members |-> members]
array(items) == [t |-> "array", items |-> items]
broken == [t |-> "broken"]   \* not JSON from here on

\* Shape::field: the shape of the value under each key of an object.
scalars(keys) == [k \in keys |-> "Scalar"]

field ==
  [Task |-> scalars({"class", "operation", "root_operation_id", "source", "reason"})
     @@ [scope |-> "Scope", blocking_dispatch |-> "BlockingDispatch", stages |-> "Stages"],
   Scope |-> [Child |-> "Child"],
   Child |-> scalars({"parent_operation_id", "parent_stage", "parent_awaits"}),
   Stage |-> scalars({"class", "stage", "substrate_hint", "fan_out"}) @@ [reduce_policy |-> "Reduce"],
   Reduce |-> scalars({"stable_sort_key", "duplicate_merge", "tie_break", "error_aggregation",
                       "partial_result_ordering"}),
   BlockingDispatch |-> [requested_stack |-> "RequestedStack"],
   RequestedStack |-> scalars({"stack_size_bytes"}),
   Config |-> [topology |-> "Topology", resources |-> "Resources", classes |-> "Classes",
               extra_substrates |-> "Substrates", capability_limits |-> "CapabilityLimits"],
   Topology |-> scalars({"blocking_threads", "large_stack_slots", "maintenance_workers",
                         "local_runtime_slots"})
     @@ [cpu |-> "Cpu", physical_domains |-> "PhysicalDomains"],
   Cpu |-> scalars({"reserve_cores", "min_workers", "max_workers"}) @@ [mode |-> "CpuMode"],
   CpuMode |-> scalars({"Fixed"}),
   PhysicalDomains |-> [shared_blocking |-> "PhysicalMode", dedicated |-> "PhysicalMode"],
   PhysicalMode |-> scalars({"Fixed"}),
   Resources |-> scalars({"max_cpu_units", "max_memory_units", "per_request_max_cpu_units",
                          "per_request_max_memory_units"})
     @@ [memory_unit_scale |-> "MemoryScale"],
   MemoryScale |-> scalars({"bytes_per_unit"}),
   ClassPolicy |-> scalars({"max_inflight", "max_queue_depth", "memory_permit_mode",
                            "memory_release_policy", "overflow_policy", "cancellation_policy",
                            "best_effort"})
     @@ [permit_cost |-> "PermitCost", fairness |-> "Fairness",
         memory_overcommit_policy |-> "Overcommit", retry_after_policy |-> "RetryAfter",
         checkpoint_policy |-> "Checkpoint"],
   RetryAfter |-> scalars({"FixedMs"}),
   PermitCost |-> scalars({"cpu_units", "memory_units"}),
   Fairness |-> [WeightedFairQueue |-> "Wfq", DeficitRoundRobin |-> "Drr",
                 DeadlineAware |-> "DeadlineAware"],
   Wfq |-> scalars({"weight", "burst"}),
   Drr |-> scalars({"quantum"}),
   DeadlineAware |-> scalars({"slack_ms"}),
   Overcommit |-> [DegradeToLight |-> "Degrade"],
   Degrade |-> scalars({"fallback_class"}),
   Checkpoint |-> scalars({"every_n_work_items", "before_fan_out", "before_large_allocation",
                           "before_stage_boundary", "before_reduce"}),
   Substrate |-> scalars({"name", "kind", "capability_pool"})]

\* The keys of classes and capability_limits are free.
known_key(shape, key) == shape \in {"Classes", "CapabilityLimits"} \/ key \in DOMAIN field[shape]
member_shape(shape, key) ==
  CASE shape = "Classes" -> "ClassPolicy"
    [] shape = "CapabilityLimits" -> "Scalar"
    [] OTHER -> field[shape][key]

\* Mutant of element_error: one stage too many is scanned.
RECURSIVE scan_value(_, _, _, _)
element_error_late(items, i, shape, depth, limits) ==
  IF shape = "Stages" /\ i > limits.stages + 1 THEN "StageLimit"
  ELSE scan_value(items[i], IF shape = "Stages" THEN "Stage" ELSE "Substrate", depth + 1, limits)

\* The stage past the limit is refused before it is read.
element_error(items, i, shape, depth, limits) ==
  IF shape = "Stages" /\ i > limits.stages THEN "StageLimit"
  ELSE scan_value(items[i], IF shape = "Stages" THEN "Stage" ELSE "Substrate", depth + 1, limits)

member_error(members, i, shape, depth, limits) ==
  CASE \E j \in 1..(i - 1) : members[j][1] = members[i][1] -> "DuplicateKey"
    [] ~known_key(shape, members[i][1]) -> "UnknownKey"
    [] OTHER -> scan_value(members[i][2], member_shape(shape, members[i][1]), depth + 1, limits)

\* ScanVisitor, in document order: the first failure ends the scan.
scan_value(value, shape, depth, limits) ==
  LET ordered(errors) == Head(SelectSeq(errors, LAMBDA error : error # Ok) \o <<Ok>>)
  IN CASE value.t = "scalar" -> Ok
       [] value.t = "broken" -> "Decode"
       [] depth > limits.depth -> "DepthLimit"
       [] value.t = "object" /\ shape \in {"Scalar", "Stages", "Substrates"} -> "InvalidShape"
       [] value.t = "array" /\ shape \notin {"Stages", "Substrates"} -> "InvalidShape"
       [] value.t = "object" ->
            ordered([i \in DOMAIN value.members |->
                       member_error(value.members, i, shape, depth, limits)])
       [] value.t = "array" ->
            ordered([i \in DOMAIN value.items |->
                       element_error(value.items, i, shape, depth, limits)])

\* A text: its value, its length, and whether anything follows the value.
scan(text, limits, shape) ==
  IF 0 \in {limits.bytes, limits.depth, limits.stages} THEN "InvalidLimit"
  ELSE IF text.bytes > limits.bytes THEN "ByteLimit"
  ELSE first_error(<< LET failure == scan_value(text.value, shape, 1, limits)
                      IN <<failure # Ok, failure>>,
                      <<text.trailing, "Decode">> >>)

-----------------------------------------------------------------------------
\* The decoded members (serde): the last one wins where a key is repeated.
present(value, key) == \E i \in DOMAIN value.members : value.members[i][1] = key
member(value, key) ==
  value.members[Max({i \in DOMAIN value.members : value.members[i][1] = key})][2]

required == {"class", "operation", "root_operation_id", "source", "reason", "scope", "stages"}

decode_stage(value) ==
  stage_of(member(value, "class").v, member(value, "stage").v, member(value, "substrate_hint").v,
           member(value, "fan_out").v,
           IF member(value, "reduce_policy").t = "object"
           THEN member(member(value, "reduce_policy"), "stable_sort_key").v ELSE NoReduce)

\* The dispatch tag as it is written: omitted, a tag, or an explicit null, which
\* is not an omission.
decode_dispatch(value) ==
  IF ~present(value, "blocking_dispatch") THEN "absent"
  ELSE LET tag == member(value, "blocking_dispatch")
       IN IF tag.t = "scalar" THEN tag.v ELSE "requested_stack"

decode_stack(value) ==
  IF decode_dispatch(value) = "requested_stack"
  THEN member(member(member(value, "blocking_dispatch"), "requested_stack"), "stack_size_bytes").v
  ELSE NoStack

decode_scope(value) ==
  IF member(value, "scope").t = "scalar" THEN Root
  ELSE LET child == member(member(value, "scope"), "Child")
       IN [kind |-> "Child", parent |-> member(child, "parent_operation_id").v,
           stage |-> member(child, "parent_stage").v, awaits |-> member(child, "parent_awaits").v]

decode_task(value) ==
  [class |-> member(value, "class").v, operation |-> member(value, "operation").v,
   root |-> member(value, "root_operation_id").v, scope |-> decode_scope(value),
   stack |-> decode_stack(value),
   stages |-> [i \in DOMAIN member(value, "stages").items |->
                 decode_stage(member(value, "stages").items[i])]]

validate_requested_stack_size(size) == size \in 1..MaxStack

\* The checks on a decoded task: its dispatch tag, then the contract.
dispatch_error(spec, tag) ==
  LET blocking_family == spec.stages # <<>> /\ spec.stages[1].hint \in BlockingFamily
  IN first_error(<<
       << /\ blocking_family /\ tag = "requested_stack"
          /\ ~validate_requested_stack_size(spec.stack), "BlockingDispatch">>,
       <<blocking_family # (tag # "absent"), "BlockingDispatch">>,
       <<validate_task_spec(spec) # Ok, "TaskPlan">> >>)

decodes(value) ==
  (\A key \in required : present(value, key)) /\ decode_dispatch(value) # "null"

checked(spec, tag) ==
  IF dispatch_error(spec, tag) # Ok THEN [error |-> dispatch_error(spec, tag)]
  ELSE [error |-> Ok, spec |-> spec]

\* parse_task_spec: the error, or Ok and the plan.
parse_task_spec(text, limits) ==
  LET error == scan(text, limits, "Task")
  IN CASE error # Ok -> [error |-> error]
       [] error = Ok /\ ~decodes(text.value) -> [error |-> "Decode"]
       [] OTHER -> checked(decode_task(text.value), decode_dispatch(text.value))

-----------------------------------------------------------------------------
\* What a client writes for a spec, with at most one thing wrong

write_stage(d) ==
  object(<< <<"class", scalar(d.class)>>, <<"stage", scalar(d.stage)>>,
            <<"substrate_hint", scalar(d.hint)>>, <<"fan_out", scalar(d.fan_out)>>,
            <<"reduce_policy", IF d.reduce = NoReduce THEN scalar("null")
                               ELSE object(<< <<"stable_sort_key", scalar(d.reduce)>> >>)>> >>)

write_scope(scope) ==
  IF scope.kind = "Root" THEN scalar("Root")
  ELSE object(<< <<"Child", object(<< <<"parent_operation_id", scalar(scope.parent)>>,
                                      <<"parent_stage", scalar(scope.stage)>>,
                                      <<"parent_awaits", scalar(scope.awaits)>> >>)>> >>)

write_dispatch(tag, stack) ==
  IF tag # "requested_stack" THEN scalar(tag)
  ELSE object(<< <<"requested_stack", object(<< <<"stack_size_bytes", scalar(stack)>> >>)>> >>)

write_task(spec, tag) ==
  << <<"class", scalar(spec.class)>>, <<"operation", scalar(spec.operation)>>,
     <<"root_operation_id", scalar(spec.root)>>, <<"source", scalar("internal")>>,
     <<"reason", scalar("ExplicitMapping")>>, <<"scope", write_scope(spec.scope)>>,
     <<"stages", array([i \in DOMAIN spec.stages |-> write_stage(spec.stages[i])])>> >>
  \o (IF tag = "absent" THEN <<>> ELSE << <<"blocking_dispatch", write_dispatch(tag, spec.stack)>> >>)

extra_members(defect) ==
  CASE defect = "repeated key" -> << <<"operation", scalar(99)>> >>
    [] defect = "unknown key" -> << <<"priority", scalar(1)>> >>
    [] defect = "raw stack" -> << <<"stack_size_bytes", scalar(1)>> >>
    [] OTHER -> <<>>

with_defect(members, defect) ==
  [i \in DOMAIN members |->
     CASE defect = "object for a scalar" /\ members[i][1] = "reason" -> <<"reason", object(<<>>)>>
       [] defect = "array for an object" /\ members[i][1] = "scope" -> <<"scope", array(<<>>)>>
       [] defect = "cut off" /\ i = Len(members) -> <<members[i][1], broken>>
       [] OTHER -> members[i]]
  \o extra_members(defect)

written(spec, tag, defect) ==
  LET members == with_defect(write_task(spec, tag), defect)
  IN [value |-> object(IF defect = "missing key" THEN Tail(members) ELSE members),
      bytes |-> 8 + Len(spec.stages), trailing |-> defect = "trailing"]

\* A deployment, with the classes and the pools in the order they are written.
write_mode(workers) ==
  IF workers = Auto THEN scalar("Auto") ELSE object(<< <<"Fixed", scalar(workers)>> >>)

write_topology(t) ==
  object(<< <<"cpu", object(<< <<"mode", write_mode(t.cpu)>>, <<"reserve_cores", scalar(t.reserve)>>,
                               <<"min_workers", scalar(t.min)>>, <<"max_workers", scalar(t.max)>> >>)>>,
            <<"blocking_threads", scalar(t.blocking)>>, <<"large_stack_slots", scalar(t.large_stack)>>,
            <<"maintenance_workers", scalar(t.maintenance)>>,
            <<"local_runtime_slots", scalar(t.local_runtime)>>,
            <<"physical_domains", object(<< <<"shared_blocking", write_mode(t.shared_blocking)>>,
                                            <<"dedicated", write_mode(t.dedicated)>> >>)>> >>)

write_policy(p) ==
  object(<< <<"max_inflight", scalar(p.max_inflight)>>, <<"max_queue_depth", scalar(p.max_queue_depth)>>,
            <<"permit_cost", object(<< <<"cpu_units", scalar(p.cpu)>>, <<"memory_units", scalar(p.mem)>> >>)>>,
            <<"cancellation_policy", scalar(p.cancellation)>> >>)

write_config(d) ==
  object(<< <<"topology", write_topology(d.topology)>>,
            <<"resources", object(<< <<"max_cpu_units", scalar(d.budget.cpu)>> >>)>>,
            <<"classes", object([i \in DOMAIN d.classes |-> <<d.classes[i][1], write_policy(d.classes[i][2])>>])>>,
            <<"extra_substrates", array([i \in DOMAIN d.substrates |->
                object(<< <<"name", scalar(d.substrates[i].name)>>, <<"kind", scalar(d.substrates[i].kind)>>,
                          <<"capability_pool", scalar(d.substrates[i].pool)>> >>)])>>,
            <<"capability_limits", object([i \in DOMAIN d.limits |-> <<d.limits[i][1], scalar(d.limits[i][2])>>])>> >>)

config_error(d, limits) ==
  scan([value |-> write_config(d), bytes |-> 5 + Len(d.classes) + Len(d.limits),
        trailing |-> FALSE], limits, "Config")

\* A map decoded from its members: the last one wins.
decode_map(members) ==
  [key \in {members[i][1] : i \in DOMAIN members} |->
     members[Max({i \in DOMAIN members : members[i][1] = key})][2]]

\* StrictRuntimeConfig::into_builder; a map has no repetition left to register.
into_builder(d) ==
  [new_builder EXCEPT !.topology = d.topology, !.budget = d.budget,
                      !.classes = decode_map(d.classes), !.substrates = d.substrates,
                      !.limits = decode_map(d.limits)]

-----------------------------------------------------------------------------
NotParsed == [error |-> "NotParsed"]

Init == PlanInit /\ parsed = [answer |-> NotParsed]

\* Texts are read before anything else is configured.
fresh == calls = <<>> /\ outcome = Pending /\ parsed = [answer |-> NotParsed]

ParseTask(spec, tag, defect, limits) ==
  /\ tag = "requested_stack" => spec.stack # NoStack
  /\ parsed' = [spec |-> spec, tag |-> tag, defect |-> defect, limits |-> limits,
                answer |-> parse_task_spec(written(spec, tag, defect), limits)]
  /\ UNCHANGED planVars

\* parse_runtime_config and into_builder: a refused text leaves no builder.
ParseConfig(d, limits) ==
  /\ LET error == config_error(d, limits)
     IN /\ builder' = IF error = Ok THEN into_builder(d) ELSE NoBuilder
        /\ outcome' = IF error = Ok THEN Pending ELSE error
  /\ calls' = << <<"topology", d.topology>>, <<"resources", d.budget>> >>
              \o [i \in DOMAIN d.classes |-> <<"class", d.classes[i][1], d.classes[i][2]>>]
              \o [i \in DOMAIN d.substrates |-> <<"substrate", d.substrates[i]>>]
              \o [i \in DOMAIN d.limits |-> <<"limit", d.limits[i][1], d.limits[i][2]>>]
  /\ UNCHANGED <<runtime, running, result, parsed>>

Next ==
  \/ parsed = [answer |-> NotParsed] /\ PlanNext /\ UNCHANGED parsed
  \/ fresh /\ \E spec \in Specs, tag \in Tags, defect \in Defects, limits \in IngressLimits :
                ParseTask(spec, tag, defect, limits)
  \/ fresh /\ \E d \in Declarations, limits \in IngressLimits : ParseConfig(d, limits)

vars == <<builderVars, running, result, parsed>>
Spec == Init /\ [][Next]_vars

-----------------------------------------------------------------------------
\* Properties

\* How deeply the text of a task nests objects and arrays.
nesting(spec, tag) ==
  Max({1, IF spec.stages = <<>> THEN 2 ELSE 3,
       IF \E i \in DOMAIN spec.stages : spec.stages[i].reduce # NoReduce THEN 4 ELSE 1,
       IF spec.scope.kind = "Child" \/ tag = "requested_stack" THEN 3 ELSE 1})

\* Everything wrong with a written task, as the errors that would say so.
deserved(spec, tag, defect, limits) ==
  LET dispatches == IF primary_substrate_hint(spec) \in BlockingFamily
                    THEN {"shared_blocking", "requested_stack"} ELSE {"absent"}
      wrong == [InvalidLimit |-> 0 \in {limits.bytes, limits.depth, limits.stages},
                ByteLimit |-> 8 + Len(spec.stages) > limits.bytes,
                DepthLimit |-> nesting(spec, tag) > limits.depth,
                StageLimit |-> Len(spec.stages) > limits.stages,
                DuplicateKey |-> defect = "repeated key",
                UnknownKey |-> defect \in {"unknown key", "raw stack"},
                InvalidShape |-> defect \in {"object for a scalar", "array for an object"},
                Decode |-> defect \in {"cut off", "trailing", "missing key"} \/ tag = "null",
                BlockingDispatch |-> \/ tag \notin dispatches
                                     \/ tag = "requested_stack" /\ spec.stack \notin 1..MaxStack,
                TaskPlan |-> validate_task_spec(spec) # Ok]
  IN {error \in DOMAIN wrong : wrong[error]}

\* The stage of the intake that finds an error: the limits, the length, the scan,
\* the decoding, the dispatch tag, the contract.  A text that is cut off ends the
\* scan where it ends.
stage(error, defect) ==
  CASE error = "InvalidLimit" -> 1
    [] error = "ByteLimit" -> 2
    [] error \in {"DepthLimit", "StageLimit", "DuplicateKey", "UnknownKey", "InvalidShape"} -> 3
    [] error = "Decode" -> IF defect = "cut off" THEN 3 ELSE 4
    [] error = "BlockingDispatch" -> 5
    [] error = "TaskPlan" -> 6

\* Strict ingress accepts exactly the texts it should, at every limit: one that
\* says anything wrong, at any level, is refused, with an error it deserves and
\* none that an earlier stage should have reported first; an accepted one yields
\* the task that was written, which some run path then takes with its stack
\* request: ingress and preflight agree on what a stack request may be.
IngressExact ==
  parsed # [answer |-> NotParsed] =>
    LET spec == [parsed.spec EXCEPT !.stack = IF parsed.tag = "requested_stack" THEN @ ELSE NoStack]
        errors == deserved(parsed.spec, parsed.tag, parsed.defect, parsed.limits)
        answer == parsed.answer
    IN IF errors = {}
       THEN /\ answer = [error |-> Ok, spec |-> spec]
            /\ \E path \in DOMAIN Paths :
                 /\ primary_substrate_hint(spec) \in Paths[path].allowed
                 /\ stack_error(spec, resolved_dispatch(spec, path)) = Ok
       ELSE /\ answer.error \in errors
            /\ \A other \in errors :
                 stage(answer.error, parsed.defect) <= stage(other, parsed.defect)
=============================================================================
