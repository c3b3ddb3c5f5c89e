SPECIFICATION MCSpec
CONSTANTS
    author = author
    author2 = author2
    blog = blog
    page = page
    f = f
    g = g
    None = None
    Objects = {blog, page, author}
    Spares = {}
    Tables = {"authors", "blogs", "pages"}
    TableOf <- MCTableOf
    RefOf <- MCRefOf
    ProxyOf <- MCProxyOf
    Fields = {f, g}
    Editable <- MCEditable
    Signalled <- MCSignalled
    Values = {0, 1}
    Default = 0
    MaxKey = 1
    MaxEvents = 1
    Configs <- MCConfigs
    Deletable = {}
PROPERTIES
    RetryStores
