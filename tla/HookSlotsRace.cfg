SPECIFICATION Spec
CONSTANTS
    Plain = {}
    Pooled = {v1}
    Resolved = {v1}
    PoolSize = 1
    Tool = {f1, f2}
    Thread = {t1}
    Render = render
    Null = null
PROPERTY ToolsStayChained
