SPECIFICATION AgentTasksFairSpec
CONSTANTS
  Tasks = {t1, t2}
  TaskSessions = {s1, s2}
  Clients = {w1, w2}
  MaxConcurrentTasks = 1
PROPERTY StopEnds
CHECK_DEADLOCK FALSE
